---- MODULE Spec2Model ----
(***************************************************************************)
(* Guardian invitation workflow of kairos (api/invitations.py and the      *)
(* Guardian Invite / Student Guardian / Guardian document controllers).    *)
(*                                                                         *)
(* The document store is the one the handlers are written against: every   *)
(* frappe.db read, insert and save is one atomic step that is visible to   *)
(* every other request at once; a handler that raises keeps the writes it  *)
(* has already made.  A Document loaded with frappe.get_doc is a private   *)
(* copy of the row; save() runs validate() and then writes every field of  *)
(* that copy back.  Time is counted in whole days.                         *)
(*                                                                         *)
(* The module also covers the trial gate (middleware/trial_access.py,      *)
(* api/trial.py, tasks/trial_expiration.py), under TrialSpec, and audience *)
(* resolution (audience.py), under AudienceSpec.  Cache entries live 300   *)
(* seconds: one may outlive the next day boundary, never the one after.    *)
(***************************************************************************)
EXTENDS Integers, Sequences, FiniteSets, Bags, TLC

VARIABLES
    now,                  \* frappe.utils.now_datetime()
    tabGuardianInvite,    \* Guardian Invite rows, name GINV-n = index n
    tabGuardian,          \* Guardian rows, name GRD-n = index n
    tabStudentGuardian,   \* Student Guardian rows, a bag: equal rows may repeat
    pc,                   \* position of each accept_invitation request
    loc,                  \* local variables of each accept_invitation request
    revoked,              \* names revoked and not resent since
    tabInstitution,       \* trial fields of the Institution rows
    cache,                \* frappe.cache(): key -> entry with a time to live
    queue,                \* frappe.enqueue: _update_expired_status jobs not yet run
    tabComment,           \* Comment rows on Institutions, as the set of their contents
    tabErrorLog,          \* Error Log rows written by frappe.log_error, as the set of their titles
    tabSchoolUnit,        \* School Unit rows
    tabGrade,             \* Grade rows
    tabStudentEnrollment, \* Student Enrollment rows, in order of insertion
    sgpc,                 \* position of each Student Guardian insert or save request
    sgloc,                \* local variables of each Student Guardian request
    tabMessageRecipient,  \* the Message Recipient rows
    tabStudent            \* scope fields of the Student rows

inviteVars == <<tabGuardianInvite, tabGuardian, tabStudentGuardian, pc, loc, revoked>>
trialVars == <<tabInstitution, cache, queue, tabComment, tabErrorLog>>
audienceVars == <<tabSchoolUnit, tabGrade, tabStudentEnrollment>>
deskVars == <<sgpc, sgloc, tabMessageRecipient, tabStudent>>
vars == <<now, tabGuardianInvite, tabGuardian, tabStudentGuardian, pc, loc, revoked,
          tabInstitution, cache, queue, tabComment, tabErrorLog,
          tabSchoolUnit, tabGrade, tabStudentEnrollment,
          sgpc, sgloc, tabMessageRecipient, tabStudent>>

----------------------------------------------------------------------------
\* Bounds of the model

MaxTime == 2        \* the clock runs over 0..MaxTime
MaxDays == 2        \* expiration_days / new_expiration_days range over 1..MaxDays
MaxInvites == 1     \* Guardian Invite rows ever inserted

\* Fixture data: the rows of Institution, Student and User

Institutions == {"I1", "I2"}
Students == {"S1", "S2", "S3"}
StudentInstitution == ("S1" :> "I1") @@ ("S2" :> "I1") @@ ("S3" :> "I2")
Users == {"p@x.com"}

\* Request inputs

Procs == {1, 2}                     \* concurrent accept_invitation requests
Tokens == 1..MaxInvites             \* values of frappe.generate_hash
generate_hash(n) == MaxInvites + 1 - n   \* the n-th hash drawn: all that matters is that they differ
NoToken == 0                        \* the empty token
TokenInputs == 0..(MaxInvites + 1)  \* MaxInvites + 1 is a token of no invite
ValidEmails == {"p@x.com", "q@x.com"}
EmailInputs == ValidEmails \cup {"", "not-an-email"}
InviteEmailInputs == {"", "p@x.com", "not-an-email"}
InstitutionInputs == Institutions \cup {"", "IX"}
StudentLists == {<<>>, <<"S1">>, <<"S1", "S2">>, <<"S1", "S3">>, <<"S1", "SX">>}
DayInputs == 1..MaxDays
InviteIdInputs == 0..MaxInvites     \* 0 is the empty invitation_id
StatusInputs == {"", "Used", "Pending", "Expired"}

NoGuardian == 0
NoTime == -1

NoInvite == [token |-> NoToken, email |-> "", institution |-> "", expires |-> NoTime,
             used |-> FALSE, used_at |-> NoTime, guardian |-> NoGuardian,
             student_ids |-> <<>>, creation |-> NoTime]

NoLoc == [token |-> NoToken, user_email |-> "", name |-> 0, doc |-> NoInvite,
          guardian |-> NoGuardian, i |-> 0, students_linked |-> <<>>,
          err |-> "", again |-> FALSE, found_existing |-> FALSE]

----------------------------------------------------------------------------
\* Helpers

Range(s) == {s[k] : k \in DOMAIN s}

add_days(t, d) == t + d

validate_email_address(email) == email \in ValidEmails

\* frappe.db.get_value("Guardian Invite", {"token": token}, "name")
InviteByToken(token) == {n \in DOMAIN tabGuardianInvite : tabGuardianInvite[n].token = token}

\* frappe.db.exists("Student Guardian", {"student": s, "guardian": g})
LinkExists(s, g) ==
    \E row \in BagToSet(tabStudentGuardian) : row.student = s /\ row.guardian = g

\* frappe.db.get_value("Guardian", {"email": email}, "name")
GuardiansByEmail(email) == {g \in DOMAIN tabGuardian : tabGuardian[g].email = email}

\* GuardianInvite.is_valid
is_valid(doc, t) ==
    IF doc.used THEN FALSE
    ELSE IF t > doc.expires THEN FALSE
    ELSE TRUE

\* GuardianInvite.validate_expiration_on_used: TRUE when it throws
validate_expiration_on_used_throws(doc, old_doc, t) ==
    doc.used /\ ~old_doc.used /\ t > doc.expires

\* GuardianInvite.validate: TRUE when the save is accepted
GuardianInviteValidate(doc, old_doc, t) ==
    /\ validate_email_address(doc.email)
    /\ ~validate_expiration_on_used_throws(doc, old_doc, t)

\* status derivation of get_invitation and list_invitations
get_status(doc, t) ==
    IF doc.used THEN "Used"
    ELSE IF doc.expires < t THEN "Expired"
    ELSE "Pending"

----------------------------------------------------------------------------
\* Trial gate: data

\* session users: roles and the institution get_user_institution finds for them
SessionUsers == {"Guest", "Administrator", "sm@x.com", "t@x.com", "u@x.com"}
get_roles(user) ==
    IF user \in {"sm@x.com", "Administrator"} THEN {"System Manager"}
    ELSE IF user \in {"admin@x.com", "admin2@x.com"} THEN {"School Admin"}
    ELSE IF user = "sec@x.com" THEN {"Secretary"}
    ELSE IF user \in {"teacher@x.com", "t2@x.com"} THEN {"Teacher"}
    ELSE IF user = "p@x.com" THEN {"Parent"}
    ELSE {}
get_user_institution(user) ==
    IF user = "Guest" THEN ""
    ELSE IF user \in {"t@x.com", "sm@x.com"} THEN "I1"
    ELSE ""

\* the institutions the trial calls are made on; "IX" is no Institution row
TrialInstitutionInputs == {"I1", "IX"}
MaxExtendDays == 30
MaxDurationDays == 90
MaxJobs == 1                            \* _update_expired_status jobs waiting per institution
MaxExpiry == MaxTime + 2 * MaxDays      \* trial_expires_at stays within the clock's reach
ExtendDayInputs == DayInputs \cup {0, MaxExtendDays + 1}
DurationInputs == DayInputs \cup {0, MaxDurationDays + 1}

\* an Institution that never had a trial
NoTrial == [is_trial |-> FALSE, trial_status |-> "", trial_started_at |-> NoTime,
            trial_expires_at |-> NoTime]

\* cache entries: a missing key reads as None; fresh is lost at the first
\* day boundary after set_value, the entry at the second (300 s < 1 day)
NoEntry == [present |-> FALSE, fresh |-> FALSE, value |-> FALSE]
NoStatusEntry == [present |-> FALSE, fresh |-> FALSE,
                  value |-> [is_trial |-> FALSE, is_expired |-> FALSE, trial_status |-> ""]]
set_value(v) == [present |-> TRUE, fresh |-> TRUE, value |-> v]
age(entry, none) == IF entry.present /\ entry.fresh THEN [entry EXCEPT !.fresh = FALSE] ELSE none
EmptyCache == [trial_expired |-> [i \in Institutions |-> NoEntry],
               trial_status |-> [i \in Institutions |-> NoStatusEntry]]

----------------------------------------------------------------------------
\* Audience: the academic structure

MaxEnrollments == 2                     \* Student Enrollment rows ever inserted

Campuses == {"C1"}
SchoolUnits == {"U1"}
Grades == {"G1", "G2"}
Sections == {"SEC1", "SEC2"}
AcademicYears == {"Y1", "Y2"}
UnitCampus == [u \in SchoolUnits |-> "C1"]
GradeUnit == [g \in Grades |-> "U1"]
\* the Section rows
tabSection == ("SEC1" :> [grade |-> "G1", academic_year |-> "Y1", shift |-> "Morning"]) @@
              ("SEC2" :> [grade |-> "G2", academic_year |-> "Y1", shift |-> "Afternoon"])
\* the Academic Year flagged is_current; "" when none is
get_current_academic_year == "Y1"

AudienceTypes == {"All School", "Campus", "School Unit", "Grade", "Section", "Custom"}
AudienceTypeInputs == AudienceTypes \cup {"Everyone"}
SectionInputs == Sections \cup {"", "SECX"}
ShiftInputs == {"", "Morning"}
\* the scopes audiences are asked for: each section with the grade, school unit
\* and campus above it, a section that does not exist, and nothing at all
ScopeInputs ==
    {[campus |-> tabSchoolUnit[tabGrade[tabSection[sec].grade].school_unit].campus,
      school_unit |-> tabGrade[tabSection[sec].grade].school_unit,
      grade |-> tabSection[sec].grade, section |-> sec] : sec \in Sections}
    \cup {[campus |-> "C1", school_unit |-> "U1", grade |-> "G1", section |-> "SECX"],
          [campus |-> "", school_unit |-> "", grade |-> "", section |-> ""]}
EnrollmentStatus == {"Active", "Withdrawn"}
\* the users who ask for a preview, and the scopes they ask it for: those of
\* ScopeInputs and each of them with only one of its levels filled in
SenderUsers ==
    {"sm@x.com", "admin@x.com", "admin2@x.com", "teacher@x.com", "t2@x.com", "p@x.com"}
PreviewScopeInputs ==
    ScopeInputs
    \cup {[campus |-> sc.campus, school_unit |-> "", grade |-> "", section |-> ""] : sc \in ScopeInputs}
    \cup {[campus |-> "", school_unit |-> "", grade |-> sc.grade, section |-> ""] : sc \in ScopeInputs}
    \cup {[campus |-> "", school_unit |-> "", grade |-> "", section |-> sc.section] : sc \in ScopeInputs}

----------------------------------------------------------------------------
\* Documents edited by name: data

MaxLinks == 2       \* Student Guardian rows ever inserted by name

\* a Student Guardian document: name 0 is a document not yet inserted
NoRow == [name |-> 0, student |-> "", guardian |-> NoGuardian, is_primary |-> FALSE]
NoRequest == [doc |-> NoRow, existing_primary |-> 0]
LinkStudentInputs == {"S1", "S2"}
LinkGuardianInputs == {1, 2}
LinkNameInputs == 1..MaxLinks

\* the Guardian rows of two parents: one with a User, one without
TwoGuardians ==
    <<[email |-> "p@x.com", user |-> "p@x.com"], [email |-> "q@x.com", user |-> ""]>>

\* Message Recipient: one row, as inserted (every channel Pending)
MessageRecipients == {"MRCP-1"}
EmailStatus == {"Pending", "Sent", "Delivered", "Failed", "Bounced"}
SmsStatus == {"Pending", "Sent", "Delivered", "Failed"}
PushStatus == {"Pending", "Sent", "Delivered", "Failed"}
ErrorInputs == {"", "refused"}
NewRecipient ==
    [email_status |-> "Pending", email_sent_at |-> NoTime, email_delivered_at |-> NoTime,
     email_error |-> "", sms_status |-> "Pending", sms_sent_at |-> NoTime, sms_error |-> "",
     push_status |-> "Pending", push_sent_at |-> NoTime]

\* Student: institution, campus, current_grade and current_section of each row
StudentScope ==
    ("S1" :> [institution |-> "I1", campus |-> "C1", current_grade |-> "G1",
              current_section |-> "SEC1"])
    @@ ("S2" :> [institution |-> "I1", campus |-> "C1", current_grade |-> "G2",
                 current_section |-> "SEC2"])
    @@ ("S3" :> [institution |-> "I2", campus |-> "", current_grade |-> "",
                 current_section |-> ""])

\* a Student row with no scope value
NoScope == [institution |-> "", campus |-> "", current_grade |-> "", current_section |-> ""]
StudentScopeInputs == {StudentScope[st] : st \in Students} \cup {NoScope}

\* Staff rows by name, with their User; one Staff row is named as its user
tabStaff ==
    ("STAFF-T" :> [user |-> "teacher@x.com"]) @@ ("t2@x.com" :> [user |-> "t2@x.com"])
    @@ ("STAFF-D" :> [user |-> "admin@x.com"]) @@ ("STAFF-N" :> [user |-> "admin2@x.com"])

\* Staff Section Assignment rows
tabStaffSectionAssignment ==
    {[staff |-> "STAFF-T", section |-> "SEC1", academic_year |-> "Y1", is_active |-> TRUE],
     [staff |-> "STAFF-T", section |-> "SEC2", academic_year |-> "Y2", is_active |-> TRUE],
     [staff |-> "t2@x.com", section |-> "SEC2", academic_year |-> "Y1", is_active |-> TRUE],
     [staff |-> "t2@x.com", section |-> "SEC1", academic_year |-> "Y1", is_active |-> FALSE]}

\* director, vice_director and coordinator of the School Unit rows
SchoolUnitStaff ==
    [u \in SchoolUnits |-> [director |-> "STAFF-D", vice_director |-> "", coordinator |-> ""]]

\* the users the permission hooks are asked about
PermissionUsers ==
    {"Administrator", "Guest", "admin@x.com", "sec@x.com", "teacher@x.com", "t2@x.com",
     "p@x.com", "u@x.com"}

\* News and School Event rows: scope fields and status
ScopeTypes == {"Institution", "Campus", "Grade", "Section"}
ScopeRecords ==
    [scope_type : ScopeTypes, institution : {"I1", "I2"}, campus : {"", "C1"},
     grade : {"", "G1"}, section : {"", "SEC2"}]
NewsStatus == {"Draft", "Scheduled", "Published", "Archived"}
SchoolEventStatus == {"Draft", "Published", "Cancelled", "Completed"}

\* the Guardian tables and the Student Guardian rows the hooks are asked on
GuardianTables == {<<>>, <<TwoGuardians[1]>>, TwoGuardians}
LinkRows(guardians) ==
    [student : Students, guardian : DOMAIN guardians, is_primary : {FALSE}]

----------------------------------------------------------------------------
\* every table but Guardian, Student Guardian and Student
InitRest ==
    /\ now = 0
    /\ tabGuardianInvite = <<>>
    /\ pc = [p \in Procs |-> "idle"]
    /\ loc = [p \in Procs |-> NoLoc]
    /\ revoked = {}
    /\ tabInstitution = [i \in Institutions |-> NoTrial]
    /\ cache = EmptyCache
    /\ queue = [i \in Institutions |-> 0]
    /\ tabComment = {}
    /\ tabErrorLog = {}
    /\ tabSchoolUnit = [u \in SchoolUnits |-> [campus |-> UnitCampus[u], is_active |-> TRUE]]
    /\ tabGrade = [g \in Grades |-> [school_unit |-> GradeUnit[g], is_active |-> TRUE]]
    /\ tabStudentEnrollment = <<>>
    /\ sgpc = [p \in Procs |-> "idle"]
    /\ sgloc = [p \in Procs |-> NoRequest]
    /\ tabMessageRecipient = [n \in MessageRecipients |-> NewRecipient]

Init ==
    /\ InitRest
    /\ tabGuardian = <<>>
    /\ tabStudentGuardian = EmptyBag
    /\ tabStudent = StudentScope

\* the clock advances; cache entries past their time to live are gone
Tick ==
    /\ now < MaxTime
    /\ now' = now + 1
    /\ cache' = [trial_expired |-> [i \in Institutions |-> age(cache.trial_expired[i], NoEntry)],
                 trial_status |-> [i \in Institutions |-> age(cache.trial_status[i], NoStatusEntry)]]
    /\ UNCHANGED <<tabGuardianInvite, tabGuardian, tabStudentGuardian, pc, loc, revoked>>
    /\ UNCHANGED <<tabInstitution, queue, tabComment, tabErrorLog>>
    /\ UNCHANGED audienceVars
    /\ UNCHANGED deskVars

\* the loop of create_invitation over the student ids, from position k on
RECURSIVE validate_students(_, _, _)
validate_students(students, k, institution) ==
    IF k > Len(students) THEN ""
    ELSE IF students[k] \notin Students THEN "DoesNotExistError"
    ELSE IF StudentInstitution[students[k]] # institution THEN "ValidationError"
    ELSE validate_students(students, k + 1, institution)

\* create_invitation without the loop over the students
create_invitation_error_skips_students(institution, email, students) ==
    IF institution = "" THEN "MandatoryError"
    ELSE IF email = "" THEN "MandatoryError"
    ELSE IF Len(students) = 0 THEN "MandatoryError"
    ELSE IF institution \notin Institutions THEN "DoesNotExistError"
    ELSE IF ~validate_email_address(email) THEN "ValidationError"
    ELSE ""

\* first failing check of create_invitation, "" when all pass
create_invitation_error(institution, email, students) ==
    IF institution = "" THEN "MandatoryError"
    ELSE IF email = "" THEN "MandatoryError"
    ELSE IF Len(students) = 0 THEN "MandatoryError"
    ELSE IF institution \notin Institutions THEN "DoesNotExistError"
    ELSE IF validate_students(students, 1, institution) # ""
         THEN validate_students(students, 1, institution)
    ELSE IF ~validate_email_address(email) THEN "ValidationError"
    ELSE ""

\* GuardianInvite.before_insert: the token is drawn
before_insert(doc, n) == [doc EXCEPT !.token = generate_hash(n)]

\* the document create_invitation inserts
new_invite(institution, email, students, expiration_days, t, n) ==
    before_insert([NoInvite EXCEPT !.institution = institution, !.email = email,
                                   !.expires = add_days(t, expiration_days),
                                   !.student_ids = students, !.creation = t], n)

create_invitation(institution, email, students, expiration_days) ==
    /\ Len(tabGuardianInvite) < MaxInvites
    /\ IF create_invitation_error(institution, email, students) # ""
       THEN UNCHANGED tabGuardianInvite
       ELSE LET invite == new_invite(institution, email, students, expiration_days,
                                     now, Len(tabGuardianInvite) + 1)
            IN /\ GuardianInviteValidate(invite, invite, now)
               /\ tabGuardianInvite' = Append(tabGuardianInvite, invite)
    /\ UNCHANGED <<now, tabGuardian, tabStudentGuardian, pc, loc, revoked>>
    /\ UNCHANGED trialVars
    /\ UNCHANGED audienceVars
    /\ UNCHANGED deskVars

\* get_invitation testing the expiry before the used flag
get_invitation_result_expiry_first(token) ==
    IF token = NoToken \/ InviteByToken(token) = {}
    THEN [ok |-> FALSE, err |-> "DoesNotExistError", id |-> 0, status |-> "",
          is_valid |-> FALSE]
    ELSE LET name == CHOOSE n \in InviteByToken(token) : TRUE
             invite == tabGuardianInvite[name]
         IN IF invite.expires < now
            THEN [ok |-> TRUE, err |-> "", id |-> name, status |-> "Expired",
                  is_valid |-> FALSE]
            ELSE IF invite.used
            THEN [ok |-> TRUE, err |-> "", id |-> name, status |-> "Used",
                  is_valid |-> FALSE]
            ELSE [ok |-> TRUE, err |-> "", id |-> name, status |-> "Pending",
                  is_valid |-> TRUE]

\* the response of get_invitation(token) in the current state
get_invitation_result(token) ==
    IF token = NoToken
    THEN [ok |-> FALSE, err |-> "MandatoryError", id |-> 0, status |-> "", is_valid |-> FALSE]
    ELSE IF InviteByToken(token) = {}
    THEN [ok |-> FALSE, err |-> "DoesNotExistError", id |-> 0, status |-> "",
          is_valid |-> FALSE]
    ELSE LET name == CHOOSE n \in InviteByToken(token) : TRUE
             invite == tabGuardianInvite[name]
         IN IF invite.used
            THEN [ok |-> TRUE, err |-> "", id |-> name, status |-> "Used",
                  is_valid |-> FALSE]
            ELSE IF invite.expires < now
            THEN [ok |-> TRUE, err |-> "", id |-> name, status |-> "Expired",
                  is_valid |-> FALSE]
            ELSE [ok |-> TRUE, err |-> "", id |-> name, status |-> "Pending",
                  is_valid |-> TRUE]

\* get_invitation reads and writes nothing
get_invitation(token) ==
    /\ get_invitation_result(token).ok \in BOOLEAN
    /\ UNCHANGED vars

\* revoke_invitation without the expiry check
revoke_result_ignores_expiry(invitation_id) ==
    IF invitation_id \notin DOMAIN tabGuardianInvite
    THEN [ok |-> FALSE, err |-> "DoesNotExistError", doc |-> NoInvite]
    ELSE LET invite == tabGuardianInvite[invitation_id] IN
         IF invite.used
         THEN [ok |-> FALSE, err |-> "used", doc |-> invite]
         ELSE [ok |-> TRUE, err |-> "", doc |-> [invite EXCEPT !.expires = now]]

\* revoke_invitation without the used check
revoke_result_ignores_used(invitation_id) ==
    IF invitation_id \notin DOMAIN tabGuardianInvite
    THEN [ok |-> FALSE, err |-> "DoesNotExistError", doc |-> NoInvite]
    ELSE LET invite == tabGuardianInvite[invitation_id] IN
         IF invite.expires < now
         THEN [ok |-> FALSE, err |-> "expired", doc |-> invite]
         ELSE [ok |-> TRUE, err |-> "", doc |-> [invite EXCEPT !.expires = now]]

\* the outcome of revoke_invitation(invitation_id) in the current state: whether
\* it succeeds, its error, and the document it saves
revoke_result(invitation_id) ==
    IF invitation_id = 0
    THEN [ok |-> FALSE, err |-> "MandatoryError", doc |-> NoInvite]
    ELSE IF invitation_id \notin DOMAIN tabGuardianInvite
    THEN [ok |-> FALSE, err |-> "DoesNotExistError", doc |-> NoInvite]
    ELSE LET invite == tabGuardianInvite[invitation_id] IN
         IF invite.used
         THEN [ok |-> FALSE, err |-> "used", doc |-> invite]
         ELSE IF invite.expires < now
         THEN [ok |-> FALSE, err |-> "expired", doc |-> invite]
         ELSE IF ~GuardianInviteValidate([invite EXCEPT !.expires = now], invite, now)
         THEN [ok |-> FALSE, err |-> "ValidationError", doc |-> invite]
         ELSE [ok |-> TRUE, err |-> "", doc |-> [invite EXCEPT !.expires = now]]

revoke_invitation(invitation_id) ==
    /\ IF revoke_result(invitation_id).ok
       THEN /\ tabGuardianInvite' = [tabGuardianInvite EXCEPT
                                        ![invitation_id] = revoke_result(invitation_id).doc]
            /\ revoked' = revoked \cup {invitation_id}
       ELSE UNCHANGED <<tabGuardianInvite, revoked>>
    /\ UNCHANGED <<now, tabGuardian, tabStudentGuardian, pc, loc>>
    /\ UNCHANGED trialVars
    /\ UNCHANGED audienceVars
    /\ UNCHANGED deskVars

\* resend_invitation refusing an invite whose expiry has passed
resend_result_pending_only(invitation_id, new_expiration_days) ==
    IF invitation_id \notin DOMAIN tabGuardianInvite
    THEN [ok |-> FALSE, err |-> "DoesNotExistError", doc |-> NoInvite]
    ELSE LET invite == tabGuardianInvite[invitation_id] IN
         IF invite.used \/ invite.expires < now
         THEN [ok |-> FALSE, err |-> "used", doc |-> invite]
         ELSE [ok |-> TRUE, err |-> "",
               doc |-> [invite EXCEPT !.expires = add_days(now, new_expiration_days)]]

\* resend_invitation drawing a new token
resend_result_new_token(invitation_id, new_expiration_days) ==
    IF invitation_id \notin DOMAIN tabGuardianInvite
    THEN [ok |-> FALSE, err |-> "DoesNotExistError", doc |-> NoInvite]
    ELSE LET invite == tabGuardianInvite[invitation_id] IN
         IF invite.used
         THEN [ok |-> FALSE, err |-> "used", doc |-> invite]
         ELSE [ok |-> TRUE, err |-> "",
               doc |-> [invite EXCEPT !.expires = add_days(now, new_expiration_days),
                                      !.token = generate_hash(0)]]

\* the outcome of resend_invitation in the current state
resend_result(invitation_id, new_expiration_days) ==
    IF invitation_id = 0
    THEN [ok |-> FALSE, err |-> "MandatoryError", doc |-> NoInvite]
    ELSE IF invitation_id \notin DOMAIN tabGuardianInvite
    THEN [ok |-> FALSE, err |-> "DoesNotExistError", doc |-> NoInvite]
    ELSE LET invite == tabGuardianInvite[invitation_id]
             new_expires == add_days(now, new_expiration_days)
         IN IF invite.used
            THEN [ok |-> FALSE, err |-> "used", doc |-> invite]
            ELSE IF ~GuardianInviteValidate([invite EXCEPT !.expires = new_expires],
                                            invite, now)
            THEN [ok |-> FALSE, err |-> "ValidationError", doc |-> invite]
            ELSE [ok |-> TRUE, err |-> "", doc |-> [invite EXCEPT !.expires = new_expires]]

resend_invitation(invitation_id, new_expiration_days) ==
    /\ IF resend_result(invitation_id, new_expiration_days).ok
       THEN /\ tabGuardianInvite' = [tabGuardianInvite EXCEPT ![invitation_id] =
                                        resend_result(invitation_id, new_expiration_days).doc]
            /\ revoked' = revoked \ {invitation_id}
       ELSE UNCHANGED <<tabGuardianInvite, revoked>>
    /\ UNCHANGED <<now, tabGuardian, tabStudentGuardian, pc, loc>>
    /\ UNCHANGED trialVars
    /\ UNCHANGED audienceVars
    /\ UNCHANGED deskVars

\* rows matched by the filters of list_invitations
list_filter(n, institution, status) ==
    LET inv == tabGuardianInvite[n] IN
    /\ institution # "" => inv.institution = institution
    /\ status = "Used" => inv.used
    /\ status = "Pending" => ~inv.used /\ inv.expires > now
    /\ status = "Expired" => ~inv.used /\ inv.expires <= now

\* the rows list_invitations returns, each with its derived status
list_invitations_result(institution, status) ==
    {[name |-> n, status |-> get_status(tabGuardianInvite[n], now)] :
        n \in {m \in DOMAIN tabGuardianInvite : list_filter(m, institution, status)}}

\* list_invitations reads and writes nothing
list_invitations(institution, status) ==
    /\ list_invitations_result(institution, status) \subseteq
           [name : DOMAIN tabGuardianInvite, status : {"Used", "Pending", "Expired"}]
    /\ UNCHANGED vars

----------------------------------------------------------------------------
\* accept_invitation, one step per database access

Fail(p, err) ==
    /\ pc' = [pc EXCEPT ![p] = "failed"]
    /\ loc' = [loc EXCEPT ![p].err = err]

\* accept_invitation raises before the invite is loaded
Reject(p, token, user_email, err) ==
    /\ pc' = [pc EXCEPT ![p] = "failed"]
    /\ loc' = [loc EXCEPT ![p] = [NoLoc EXCEPT !.err = err]]

\* position after student row i has been handled
AfterRow(doc, i) == IF i >= Len(doc.student_ids) THEN "mark_as_used" ELSE "link_exists"

\* the invite has already been accepted by a request with this email
AcceptedBy(invite, user_email) ==
    /\ invite.used
    /\ invite.guardian \in DOMAIN tabGuardian
    /\ tabGuardian[invite.guardian].email = user_email

\* accept_invitation without the is_valid check
accept_check_skips_expiry(invite, t) ==
    IF invite.used THEN "used" ELSE ""

\* accept_invitation without the used check
accept_check_skips_used(invite, t) ==
    IF ~invite.used /\ ~is_valid(invite, t) THEN "expired" ELSE ""

\* outcome of the checks of accept_invitation on the loaded invite, "" when they pass
accept_check(invite, t) ==
    IF invite.used THEN "used"
    ELSE IF ~is_valid(invite, t) THEN "expired"
    ELSE ""

\* argument checks, token lookup, get_doc and the used / is_valid checks
accept_begin(p, token, user_email) ==
    /\ pc[p] = "idle"
    /\ \A q \in Procs : q < p => pc[q] # "idle"
    /\ IF token = NoToken \/ user_email = ""
       THEN Reject(p, token, user_email, "MandatoryError")
       ELSE IF ~validate_email_address(user_email)
       THEN Reject(p, token, user_email, "InvalidEmailError")
       ELSE IF InviteByToken(token) = {}
       THEN Reject(p, token, user_email, "DoesNotExistError")
       ELSE \E name \in InviteByToken(token) :
            LET invite == tabGuardianInvite[name]
                err == accept_check(invite, now)
                l == [NoLoc EXCEPT !.token = token, !.user_email = user_email,
                                   !.name = name, !.doc = invite, !.err = err,
                                   !.again = AcceptedBy(invite, user_email)]
            IN /\ pc' = [pc EXCEPT ![p] = IF err # "" THEN "failed" ELSE "get_guardian"]
               /\ loc' = [loc EXCEPT ![p] = l]
    /\ UNCHANGED <<now, tabGuardianInvite, tabGuardian, tabStudentGuardian, revoked>>
    /\ UNCHANGED trialVars
    /\ UNCHANGED audienceVars
    /\ UNCHANGED deskVars

\* _get_or_create_guardian: the lookup by email
get_guardian(p) ==
    /\ pc[p] = "get_guardian"
    /\ IF GuardiansByEmail(loc[p].user_email) # {}
       THEN \E g \in GuardiansByEmail(loc[p].user_email) :
            /\ loc' = [loc EXCEPT ![p].guardian = g]
            /\ pc' = [pc EXCEPT ![p] = AfterRow(loc[p].doc, 0)]
       ELSE /\ pc' = [pc EXCEPT ![p] = "create_guardian"]
            /\ UNCHANGED loc
    /\ UNCHANGED <<now, tabGuardianInvite, tabGuardian, tabStudentGuardian, revoked>>
    /\ UNCHANGED trialVars
    /\ UNCHANGED audienceVars
    /\ UNCHANGED deskVars

\* _get_or_create_guardian: guardian.insert
create_guardian(p) ==
    /\ pc[p] = "create_guardian"
    /\ LET email == loc[p].user_email
           guardian == [email |-> email, user |-> IF email \in Users THEN email ELSE ""]
       IN /\ validate_email_address(guardian.email)
          /\ tabGuardian' = Append(tabGuardian, guardian)
          /\ loc' = [loc EXCEPT ![p].guardian = Len(tabGuardian) + 1]
          /\ pc' = [pc EXCEPT ![p] = AfterRow(loc[p].doc, 0)]
    /\ UNCHANGED <<now, tabGuardianInvite, tabStudentGuardian, revoked>>
    /\ UNCHANGED trialVars
    /\ UNCHANGED audienceVars
    /\ UNCHANGED deskVars

\* an existing link left out of students_linked
report_existing_dropped(students_linked, student_id) == students_linked

\* students_linked after a student whose link already existed ("still report as linked")
report_existing(students_linked, student_id) == Append(students_linked, student_id)

\* the existence check of the linking loop for the next student row
link_exists(p) ==
    /\ pc[p] = "link_exists"
    /\ LET i == loc[p].i + 1
           student_id == loc[p].doc.student_ids[i]
       IN IF LinkExists(student_id, loc[p].guardian)
          THEN /\ loc' = [loc EXCEPT ![p].i = i, ![p].found_existing = TRUE,
                              ![p].students_linked = report_existing(@, student_id)]
               /\ pc' = [pc EXCEPT ![p] = AfterRow(loc[p].doc, i)]
          ELSE /\ pc' = [pc EXCEPT ![p] = "validate_duplicate"]
               /\ UNCHANGED loc
    /\ UNCHANGED <<now, tabGuardianInvite, tabGuardian, tabStudentGuardian, revoked>>
    /\ UNCHANGED trialVars
    /\ UNCHANGED audienceVars
    /\ UNCHANGED deskVars

\* student_guardian.insert: StudentGuardian.validate on the new row
validate_duplicate(p) ==
    /\ pc[p] = "validate_duplicate"
    /\ LET student_id == loc[p].doc.student_ids[loc[p].i + 1]
       IN IF LinkExists(student_id, loc[p].guardian)
          THEN Fail(p, "DuplicateError")
          ELSE /\ pc' = [pc EXCEPT ![p] = "db_insert"]
               /\ UNCHANGED loc
    /\ UNCHANGED <<now, tabGuardianInvite, tabGuardian, tabStudentGuardian, revoked>>
    /\ UNCHANGED trialVars
    /\ UNCHANGED audienceVars
    /\ UNCHANGED deskVars

\* student_guardian.insert: the row is written
db_insert(p) ==
    /\ pc[p] = "db_insert"
    /\ LET i == loc[p].i + 1
           student_id == loc[p].doc.student_ids[i]
       IN /\ tabStudentGuardian' = tabStudentGuardian (+) SetToBag(
                 {[student |-> student_id, guardian |-> loc[p].guardian, is_primary |-> FALSE]})
          /\ loc' = [loc EXCEPT ![p].i = i,
                         ![p].students_linked = Append(@, student_id)]
          /\ pc' = [pc EXCEPT ![p] = AfterRow(loc[p].doc, i)]
    /\ UNCHANGED <<now, tabGuardianInvite, tabGuardian, revoked>>
    /\ UNCHANGED trialVars
    /\ UNCHANGED audienceVars
    /\ UNCHANGED deskVars

\* GuardianInvite.mark_as_used on the request's copy of the invite, then the return
mark_as_used(p) ==
    /\ pc[p] = "mark_as_used"
    /\ LET self == loc[p].doc
           old_doc == tabGuardianInvite[loc[p].name]
           doc == [self EXCEPT !.used = TRUE, !.used_at = now, !.guardian = loc[p].guardian]
       IN IF self.used
          THEN Fail(p, "used") /\ UNCHANGED tabGuardianInvite
          ELSE IF ~is_valid(self, now)
          THEN Fail(p, "expired") /\ UNCHANGED tabGuardianInvite
          ELSE IF ~GuardianInviteValidate(doc, old_doc, now)
          THEN Fail(p, "expired") /\ UNCHANGED tabGuardianInvite
          ELSE /\ tabGuardianInvite' = [tabGuardianInvite EXCEPT ![loc[p].name] = doc]
               /\ loc' = [loc EXCEPT ![p].doc = doc]
               /\ pc' = [pc EXCEPT ![p] = "done"]
    /\ UNCHANGED <<now, tabGuardian, tabStudentGuardian, revoked>>
    /\ UNCHANGED trialVars
    /\ UNCHANGED audienceVars
    /\ UNCHANGED deskVars

\* the response is delivered and the request slot is free again
accept_end(p) ==
    /\ pc[p] \in {"done", "failed"}
    /\ pc' = [pc EXCEPT ![p] = "idle"]
    /\ loc' = [loc EXCEPT ![p] = NoLoc]
    /\ UNCHANGED <<now, tabGuardianInvite, tabGuardian, tabStudentGuardian, revoked>>
    /\ UNCHANGED trialVars
    /\ UNCHANGED audienceVars
    /\ UNCHANGED deskVars

----------------------------------------------------------------------------
\* Trial gate: middleware/trial_access.py

ALWAYS_ALLOWED_DOCTYPES ==
    {"User", "Role", "Role Profile", "User Permission", "Session Default Settings",
     "Error Log", "Activity Log", "Comment", "Communication", "File", "Version",
     "DocShare", "System Settings", "Website Settings", "Email Account", "Email Queue",
     "Notification Log", "ToDo", "Event", "Payment Entry", "Subscription", "Institution"}

TRIAL_PROTECTED_DOCTYPES ==
    {"Student", "Guardian", "Teacher", "Academic Year", "School Level", "Grade",
     "Section", "Enrollment", "Message", "Message Recipient", "News", "School Event",
     "Event RSVP"}

\* record kinds written in the runs: allowed, protected, and two kinds of the
\* application that are on neither list
DoctypeInputs == {"User", "Student", "Student Guardian", "Guardian Invite"}

\* is_trial_expired on a cache miss, decided on trial_status only
is_trial_expired_db_status_only(institution, t) ==
    IF institution \notin Institutions THEN [result |-> FALSE, enqueue |-> FALSE]
    ELSE LET inst_data == tabInstitution[institution] IN
         IF ~inst_data.is_trial THEN [result |-> FALSE, enqueue |-> FALSE]
         ELSE IF inst_data.trial_status = "Expired" THEN [result |-> TRUE, enqueue |-> FALSE]
         ELSE [result |-> FALSE, enqueue |-> FALSE]

\* is_trial_expired on a cache miss: what it returns and whether it enqueues
\* _update_expired_status
is_trial_expired_db(institution, t) ==
    IF institution \notin Institutions THEN [result |-> FALSE, enqueue |-> FALSE]
    ELSE LET inst_data == tabInstitution[institution] IN
         IF ~inst_data.is_trial THEN [result |-> FALSE, enqueue |-> FALSE]
         ELSE IF inst_data.trial_status = "Expired" THEN [result |-> TRUE, enqueue |-> FALSE]
         ELSE IF inst_data.trial_status = "Converted" THEN [result |-> FALSE, enqueue |-> FALSE]
         ELSE IF inst_data.trial_expires_at # NoTime /\ inst_data.trial_expires_at < t
              THEN [result |-> TRUE, enqueue |-> TRUE]
         ELSE [result |-> FALSE, enqueue |-> FALSE]

\* what is_trial_expired returns in the current state
is_trial_expired_result(institution) ==
    IF institution \in Institutions /\ cache.trial_expired[institution].present
    THEN cache.trial_expired[institution].value
    ELSE is_trial_expired_db(institution, now).result

is_trial_expired(institution) ==
    IF institution \notin Institutions \/ cache.trial_expired[institution].present
    THEN UNCHANGED <<cache, queue>>
    ELSE LET r == is_trial_expired_db(institution, now) IN
         /\ r.enqueue => queue[institution] < MaxJobs
         /\ queue' = IF r.enqueue THEN [queue EXCEPT ![institution] = @ + 1] ELSE queue
         /\ cache' = [cache EXCEPT !.trial_expired[institution] = set_value(r.result)]

\* the gate passes the write without looking at the trial
gate_skips(user, doctype) ==
    \/ user \in {"Guest", "Administrator"}
    \/ "System Manager" \in get_roles(user)
    \/ doctype = ""
    \/ doctype \in ALWAYS_ALLOWED_DOCTYPES
    \/ (TRIAL_PROTECTED_DOCTYPES # {} /\ doctype \notin TRIAL_PROTECTED_DOCTYPES)

is_trial_expired_for_user_result(user) ==
    IF user \in {"Guest", "Administrator"} THEN FALSE
    ELSE IF get_user_institution(user) = "" THEN FALSE
    ELSE is_trial_expired_result(get_user_institution(user))

\* TRUE when check_trial_write_access raises the trial-expired PermissionError
check_trial_write_access_throws(user, doctype) ==
    ~gate_skips(user, doctype) /\ is_trial_expired_for_user_result(user)

\* the hook before insert, save, submit, cancel and delete
check_trial_write_access(user, doctype) ==
    /\ IF gate_skips(user, doctype) \/ get_user_institution(user) = ""
       THEN UNCHANGED <<cache, queue>>
       ELSE is_trial_expired(get_user_institution(user))
    /\ UNCHANGED <<now, tabInstitution, tabComment, tabErrorLog>>
    /\ UNCHANGED inviteVars
    /\ UNCHANGED audienceVars
    /\ UNCHANGED deskVars

\* the queued job
clear_trial_cache(c, institution) ==
    [c EXCEPT !.trial_expired[institution] = NoEntry,
              !.trial_status[institution] = NoStatusEntry]

\* db_error: frappe.db.set_value raises; the except branch logs it and the job
\* ends without a write and without clearing the cache
update_expired_status(institution, db_error) ==
    /\ queue[institution] > 0
    /\ queue' = [queue EXCEPT ![institution] = @ - 1]
    /\ IF db_error
       THEN /\ tabErrorLog' = tabErrorLog \cup {"Trial Status Update Error"}
            /\ UNCHANGED <<tabInstitution, cache>>
       ELSE /\ tabInstitution' = [tabInstitution EXCEPT ![institution].trial_status = "Expired"]
            /\ cache' = clear_trial_cache(cache, institution)
            /\ UNCHANGED tabErrorLog
    /\ UNCHANGED <<now, tabComment>>
    /\ UNCHANGED inviteVars
    /\ UNCHANGED audienceVars
    /\ UNCHANGED deskVars

\* a cache entry reaches its time to live (300 s)
cache_expire(institution) ==
    /\ cache.trial_expired[institution].present \/ cache.trial_status[institution].present
    /\ \/ cache' = [cache EXCEPT !.trial_expired[institution] = NoEntry]
       \/ cache' = [cache EXCEPT !.trial_status[institution] = NoStatusEntry]
    /\ cache' # cache
    /\ UNCHANGED <<now, tabInstitution, queue, tabComment, tabErrorLog>>
    /\ UNCHANGED inviteVars
    /\ UNCHANGED audienceVars
    /\ UNCHANGED deskVars

----------------------------------------------------------------------------
\* Trial management: api/trial.py and tasks/trial_expiration.py

is_admin(user) == "System Manager" \in get_roles(user)

\* get_trial_status: the fields of the answer the trial state decides
get_trial_status_result(institution) ==
    IF institution \notin Institutions
    THEN [err |-> "DoesNotExistError", is_trial |-> FALSE, trial_status |-> "", is_expired |-> FALSE]
    ELSE LET inst == tabInstitution[institution] IN
         IF ~inst.is_trial
         THEN [err |-> "", is_trial |-> FALSE, trial_status |-> "", is_expired |-> FALSE]
         ELSE [err |-> "", is_trial |-> TRUE, trial_status |-> inst.trial_status,
               is_expired |-> \/ inst.trial_status = "Expired"
                              \/ (inst.trial_expires_at # NoTime /\ inst.trial_expires_at < now)]

get_trial_status(institution) ==
    /\ get_trial_status_result(institution).err \in {"", "DoesNotExistError"}
    /\ UNCHANGED vars

\* extend_trial counting the days from now
extend_trial_result_from_now(user, institution, days) ==
    IF ~is_admin(user) THEN [ok |-> FALSE, err |-> "PermissionError", doc |-> NoTrial]
    ELSE IF days < 1 \/ days > MaxExtendDays
         THEN [ok |-> FALSE, err |-> "ValidationError", doc |-> NoTrial]
    ELSE IF institution \notin Institutions
         THEN [ok |-> FALSE, err |-> "DoesNotExistError", doc |-> NoTrial]
    ELSE LET inst == tabInstitution[institution] IN
         IF ~inst.is_trial THEN [ok |-> FALSE, err |-> "ValidationError", doc |-> inst]
         ELSE IF inst.trial_status = "Converted"
              THEN [ok |-> FALSE, err |-> "ValidationError", doc |-> inst]
         ELSE [ok |-> TRUE, err |-> "",
               doc |-> [inst EXCEPT !.trial_expires_at = add_days(now, days),
                                    !.trial_status = "Active"]]

\* extend_trial: the outcome and the document it saves
extend_trial_result(user, institution, days) ==
    IF ~is_admin(user) THEN [ok |-> FALSE, err |-> "PermissionError", doc |-> NoTrial]
    ELSE IF days < 1 \/ days > MaxExtendDays
         THEN [ok |-> FALSE, err |-> "ValidationError", doc |-> NoTrial]
    ELSE IF institution \notin Institutions
         THEN [ok |-> FALSE, err |-> "DoesNotExistError", doc |-> NoTrial]
    ELSE LET inst == tabInstitution[institution] IN
         IF ~inst.is_trial THEN [ok |-> FALSE, err |-> "ValidationError", doc |-> inst]
         ELSE IF inst.trial_status = "Converted"
              THEN [ok |-> FALSE, err |-> "ValidationError", doc |-> inst]
         ELSE LET current_time == now
                  current_expires == IF inst.trial_expires_at # NoTime
                                     THEN inst.trial_expires_at ELSE current_time
                  base_time == IF current_expires > current_time
                               THEN current_expires ELSE current_time
              IN [ok |-> TRUE, err |-> "",
                  doc |-> [inst EXCEPT !.trial_expires_at = add_days(base_time, days),
                                       !.trial_status = "Active"]]

extend_trial(user, institution, days) ==
    LET r == extend_trial_result(user, institution, days) IN
    /\ IF r.ok
       THEN /\ r.doc.trial_expires_at <= MaxExpiry
            /\ tabInstitution' = [tabInstitution EXCEPT ![institution] = r.doc]
            /\ tabComment' = tabComment \cup {<<institution, "extended">>}
       ELSE UNCHANGED <<tabInstitution, tabComment>>
    /\ UNCHANGED <<now, cache, queue, tabErrorLog>>
    /\ UNCHANGED inviteVars
    /\ UNCHANGED audienceVars
    /\ UNCHANGED deskVars

convert_trial_to_paid_result(user, institution) ==
    IF ~is_admin(user) THEN [ok |-> FALSE, err |-> "PermissionError", doc |-> NoTrial]
    ELSE IF institution \notin Institutions
         THEN [ok |-> FALSE, err |-> "DoesNotExistError", doc |-> NoTrial]
    ELSE LET inst == tabInstitution[institution] IN
         IF ~inst.is_trial THEN [ok |-> FALSE, err |-> "ValidationError", doc |-> inst]
         ELSE IF inst.trial_status = "Converted"
              THEN [ok |-> FALSE, err |-> "ValidationError", doc |-> inst]
         ELSE [ok |-> TRUE, err |-> "", doc |-> [inst EXCEPT !.trial_status = "Converted"]]

convert_trial_to_paid(user, institution) ==
    LET r == convert_trial_to_paid_result(user, institution) IN
    /\ IF r.ok
       THEN /\ tabInstitution' = [tabInstitution EXCEPT ![institution] = r.doc]
            /\ tabComment' = tabComment \cup {<<institution, "converted">>}
       ELSE UNCHANGED <<tabInstitution, tabComment>>
    /\ UNCHANGED <<now, cache, queue, tabErrorLog>>
    /\ UNCHANGED inviteVars
    /\ UNCHANGED audienceVars
    /\ UNCHANGED deskVars

start_trial_result(user, institution, duration_days) ==
    IF ~is_admin(user) THEN [ok |-> FALSE, err |-> "PermissionError", doc |-> NoTrial]
    ELSE IF institution \notin Institutions
         THEN [ok |-> FALSE, err |-> "DoesNotExistError", doc |-> NoTrial]
    ELSE LET inst == tabInstitution[institution] IN
         IF inst.is_trial /\ inst.trial_status = "Active"
         THEN [ok |-> FALSE, err |-> "ValidationError", doc |-> inst]
         ELSE IF duration_days < 1 \/ duration_days > MaxDurationDays
              THEN [ok |-> FALSE, err |-> "ValidationError", doc |-> inst]
         ELSE [ok |-> TRUE, err |-> "",
               doc |-> [is_trial |-> TRUE, trial_status |-> "Active",
                        trial_started_at |-> now,
                        trial_expires_at |-> add_days(now, duration_days)]]

start_trial(user, institution, duration_days) ==
    LET r == start_trial_result(user, institution, duration_days) IN
    /\ IF r.ok
       THEN /\ tabInstitution' = [tabInstitution EXCEPT ![institution] = r.doc]
            /\ tabComment' = tabComment \cup {<<institution, "started">>}
       ELSE UNCHANGED <<tabInstitution, tabComment>>
    /\ UNCHANGED <<now, cache, queue, tabErrorLog>>
    /\ UNCHANGED inviteVars
    /\ UNCHANGED audienceVars
    /\ UNCHANGED deskVars

\* check_trial_access: the cached status, or the one read now
trial_status_entry(institution) ==
    IF cache.trial_status[institution].present THEN cache.trial_status[institution].value
    ELSE [is_trial |-> tabInstitution[institution].is_trial,
          is_expired |-> tabInstitution[institution].trial_status = "Expired",
          trial_status |-> tabInstitution[institution].trial_status]

check_trial_access_institution(user, institution) ==
    IF institution # "" THEN institution ELSE get_user_institution(user)

check_trial_access_result(user, institution) ==
    LET i == check_trial_access_institution(user, institution) IN
    IF user = "Guest" THEN [has_access |-> FALSE, is_trial |-> FALSE, is_expired |-> FALSE]
    ELSE IF i = "" THEN [has_access |-> TRUE, is_trial |-> FALSE, is_expired |-> FALSE]
    ELSE IF i \notin Institutions
         THEN [has_access |-> FALSE, is_trial |-> FALSE, is_expired |-> FALSE]
    ELSE LET cached_status == trial_status_entry(i) IN
         IF cached_status.is_trial /\ cached_status.is_expired
         THEN [has_access |-> FALSE, is_trial |-> TRUE, is_expired |-> TRUE]
         ELSE [has_access |-> TRUE, is_trial |-> cached_status.is_trial, is_expired |-> FALSE]

check_trial_access(user, institution) ==
    LET i == check_trial_access_institution(user, institution) IN
    /\ IF user = "Guest" \/ i \notin Institutions \/ cache.trial_status[i].present
       THEN UNCHANGED cache
       ELSE cache' = [cache EXCEPT !.trial_status[i] = set_value(trial_status_entry(i))]
    /\ UNCHANGED <<now, tabInstitution, queue, tabComment, tabErrorLog>>
    /\ UNCHANGED inviteVars
    /\ UNCHANGED audienceVars
    /\ UNCHANGED deskVars

\* a sweep that selects the rows already marked Expired
expired_institutions_already_marked ==
    {i \in Institutions : /\ tabInstitution[i].is_trial
                          /\ tabInstitution[i].trial_status = "Expired"
                          /\ tabInstitution[i].trial_expires_at # NoTime
                          /\ tabInstitution[i].trial_expires_at < now}

\* the rows the daily sweep selects
expired_institutions ==
    {i \in Institutions : /\ tabInstitution[i].is_trial
                          /\ tabInstitution[i].trial_status = "Active"
                          /\ tabInstitution[i].trial_expires_at # NoTime
                          /\ tabInstitution[i].trial_expires_at < now}

\* the daily sweep, its writes succeeding
check_trial_expirations ==
    /\ tabInstitution' =
          [i \in Institutions |->
              IF i \in expired_institutions
              THEN [tabInstitution[i] EXCEPT !.trial_status = "Expired"]
              ELSE tabInstitution[i]]
    /\ UNCHANGED <<now, cache, queue, tabComment, tabErrorLog>>
    /\ UNCHANGED inviteVars
    /\ UNCHANGED audienceVars
    /\ UNCHANGED deskVars

initialize_trial(institution_name, duration_days) ==
    /\ IF institution_name \in Institutions
       THEN tabInstitution' = [tabInstitution EXCEPT ![institution_name] =
                                  [is_trial |-> TRUE, trial_status |-> "Active",
                                   trial_started_at |-> now,
                                   trial_expires_at |-> add_days(now, duration_days)]]
       ELSE UNCHANGED tabInstitution
    /\ UNCHANGED <<now, cache, queue, tabComment, tabErrorLog>>
    /\ UNCHANGED inviteVars
    /\ UNCHANGED audienceVars
    /\ UNCHANGED deskVars

----------------------------------------------------------------------------
\* Audience resolution: audience.py, and the documents it reads

\* StudentEnrollment.validate on a row to be written as name n (0: a new row)
student_enrollment_validate_throws(doc, n, withdrawal_date) ==
    \/ /\ doc.status = "Active"
       /\ \E k \in DOMAIN tabStudentEnrollment :
             /\ k # n
             /\ tabStudentEnrollment[k].student = doc.student
             /\ tabStudentEnrollment[k].academic_year = doc.academic_year
             /\ tabStudentEnrollment[k].status = "Active"
    \/ doc.status = "Withdrawn" /\ ~withdrawal_date

student_enrollment_insert(student, section, academic_year, status, withdrawal_date) ==
    LET doc == [student |-> student, section |-> section,
                academic_year |-> academic_year, status |-> status] IN
    /\ Len(tabStudentEnrollment) < MaxEnrollments
    /\ IF student_enrollment_validate_throws(doc, 0, withdrawal_date)
       THEN UNCHANGED tabStudentEnrollment
       ELSE tabStudentEnrollment' = Append(tabStudentEnrollment, doc)
    /\ UNCHANGED <<now, tabSchoolUnit, tabGrade>>
    /\ UNCHANGED inviteVars
    /\ UNCHANGED trialVars
    /\ UNCHANGED deskVars

student_enrollment_save(n, status, withdrawal_date) ==
    /\ n \in DOMAIN tabStudentEnrollment
    /\ LET doc == [tabStudentEnrollment[n] EXCEPT !.status = status] IN
       IF student_enrollment_validate_throws(doc, n, withdrawal_date)
       THEN UNCHANGED tabStudentEnrollment
       ELSE tabStudentEnrollment' = [tabStudentEnrollment EXCEPT ![n] = doc]
    /\ UNCHANGED <<now, tabSchoolUnit, tabGrade>>
    /\ UNCHANGED inviteVars
    /\ UNCHANGED trialVars
    /\ UNCHANGED deskVars

\* a School Unit is saved with its is_active flag set or cleared
school_unit_save(unit, is_active) ==
    /\ tabSchoolUnit' = [tabSchoolUnit EXCEPT ![unit].is_active = is_active]
    /\ UNCHANGED <<now, tabGrade, tabStudentEnrollment>>
    /\ UNCHANGED inviteVars
    /\ UNCHANGED trialVars
    /\ UNCHANGED deskVars

\* a Grade is saved with its is_active flag set or cleared
grade_save(grade, is_active) ==
    /\ tabGrade' = [tabGrade EXCEPT ![grade].is_active = is_active]
    /\ UNCHANGED <<now, tabSchoolUnit, tabStudentEnrollment>>
    /\ UNCHANGED inviteVars
    /\ UNCHANGED trialVars
    /\ UNCHANGED deskVars

\* list(set(l)): every element once
RECURSIVE list_set(_)
list_set(l) ==
    IF l = <<>> THEN <<>>
    ELSE LET front == list_set(SubSeq(l, 1, Len(l) - 1)) IN
         IF l[Len(l)] \in Range(front) THEN front ELSE Append(front, l[Len(l)])

\* frappe.get_all("Student Enrollment", ..., pluck="student")
pluck_student(sections, academic_year, statuses) ==
    LET rows == SelectSeq(tabStudentEnrollment,
                          LAMBDA r : /\ r.section \in sections
                                     /\ r.academic_year = academic_year
                                     /\ r.status \in statuses)
    IN [k \in DOMAIN rows |-> rows[k].student]

\* frappe.get_all("Section", filters=section_filters, pluck="name")
get_all_sections(grades, academic_year, shift) ==
    {sec \in Sections : /\ tabSection[sec].grade \in grades
                        /\ tabSection[sec].academic_year = academic_year
                        /\ (shift = "" \/ tabSection[sec].shift = shift)}

\* the sections an audience fans out to: err set when resolution throws,
\* found FALSE when it returns the empty list before looking at sections
audience_sections(audience_type, campus, school_unit, grade, section, shift, academic_year) ==
    LET shift_filter == IF shift # "" /\ shift # "All" /\ audience_type # "All School"
                        THEN shift ELSE ""
        units == {u \in SchoolUnits : tabSchoolUnit[u].campus = campus /\ tabSchoolUnit[u].is_active}
        in_units(us) == {g \in Grades : tabGrade[g].school_unit \in us /\ tabGrade[g].is_active}
        none == [err |-> "", found |-> FALSE, sections |-> {}]
        some(ss) == [err |-> "", found |-> ss # {}, sections |-> ss]
        throw == [err |-> "ValidationError", found |-> FALSE, sections |-> {}]
    IN  IF audience_type = "All School"
        THEN some(get_all_sections(Grades \cup {""}, academic_year, shift_filter))
        ELSE IF audience_type = "Campus"
        THEN IF campus = "" THEN throw
             ELSE IF units = {} THEN none
             ELSE IF in_units(units) = {} THEN none
             ELSE some(get_all_sections(in_units(units), academic_year, shift_filter))
        ELSE IF audience_type = "School Unit"
        THEN IF school_unit = "" THEN throw
             ELSE IF in_units({school_unit}) = {} THEN none
             ELSE some(get_all_sections(in_units({school_unit}), academic_year, shift_filter))
        ELSE IF audience_type = "Grade"
        THEN IF grade = "" THEN throw
             ELSE some(get_all_sections({grade}, academic_year, shift_filter))
        ELSE IF audience_type = "Section"
        THEN IF section = "" THEN throw ELSE some({section})
        ELSE IF audience_type = "Custom" THEN none
        ELSE throw

\* resolve_audience_to_students counting enrollments of every status
resolve_audience_to_students_any_status(audience_type, campus, school_unit, grade, section, shift, academic_year) ==
    LET year == IF academic_year # "" THEN academic_year ELSE get_current_academic_year
        a == audience_sections(audience_type, campus, school_unit, grade, section, shift, year)
    IN  IF year = "" THEN [err |-> "ValidationError", students |-> <<>>]
        ELSE IF a.err # "" THEN [err |-> a.err, students |-> <<>>]
        ELSE IF ~a.found THEN [err |-> "", students |-> <<>>]
        ELSE [err |-> "", students |-> list_set(pluck_student(a.sections, year, EnrollmentStatus))]

\* resolve_audience_to_students: the students returned, or the error thrown
resolve_audience_to_students_result(audience_type, campus, school_unit, grade, section, shift, academic_year) ==
    LET year == IF academic_year # "" THEN academic_year ELSE get_current_academic_year
        a == audience_sections(audience_type, campus, school_unit, grade, section, shift, year)
    IN  IF year = "" THEN [err |-> "ValidationError", students |-> <<>>]
        ELSE IF a.err # "" THEN [err |-> a.err, students |-> <<>>]
        ELSE IF ~a.found THEN [err |-> "", students |-> <<>>]
        ELSE [err |-> "", students |-> list_set(pluck_student(a.sections, year, {"Active"}))]

resolve_audience_to_students(audience_type, campus, school_unit, grade, section, shift, academic_year) ==
    /\ resolve_audience_to_students_result(audience_type, campus, school_unit, grade,
                                           section, shift, academic_year).err
          \in {"", "ValidationError"}
    /\ UNCHANGED vars

\* The Student Guardian table has the columns student, guardian, is_primary,
\* can_pickup and can_receive_communications; the filter added for
\* respect_preferences names receives_communications, which is none of them,
\* and the query fails.
resolve_audience_to_guardians_result(students, respect_preferences) ==
    IF Len(students) = 0 THEN [err |-> "", guardians |-> {}]
    ELSE IF respect_preferences THEN [err |-> "OperationalError", guardians |-> {}]
    ELSE [err |-> "",
          guardians |-> {r.guardian : r \in {x \in BagToSet(tabStudentGuardian) :
                                                x.student \in Range(students)}}]

resolve_audience_to_guardians(students, respect_preferences) ==
    /\ resolve_audience_to_guardians_result(students, respect_preferences).err
          \in {"", "OperationalError"}
    /\ UNCHANGED vars

\* frappe.db.get_value("Staff", {"user": user}, "name"); "" when there is none
staff_of_user(user) ==
    IF \E st \in DOMAIN tabStaff : tabStaff[st].user = user
    THEN CHOOSE st \in DOMAIN tabStaff : tabStaff[st].user = user
    ELSE ""

\* the School Units with the staff member as director, vice_director or coordinator
user_school_units(staff) ==
    {u \in SchoolUnits : \/ SchoolUnitStaff[u].director = staff
                         \/ SchoolUnitStaff[u].vice_director = staff
                         \/ SchoolUnitStaff[u].coordinator = staff}

\* frappe.db.get_value("Grade", grade, "school_unit"); "" for no such Grade
grade_school_unit(grade) ==
    IF grade \in Grades THEN tabGrade[grade].school_unit ELSE ""

\* validate_audience_permission, the School Admin branch
school_admin_may_send(user, audience_type, campus, school_unit, grade, section) ==
    LET staff == staff_of_user(user)
        units == user_school_units(staff)
        section_grade == IF section \in Sections THEN tabSection[section].grade ELSE ""
    IN  IF audience_type = "All School" THEN FALSE
        ELSE IF staff = "" THEN FALSE
        ELSE IF units = {} THEN FALSE
        ELSE IF audience_type \in {"School Unit", "Grade", "Section"} /\ school_unit # ""
        THEN school_unit \in units
        ELSE IF audience_type \in {"School Unit", "Grade", "Section"} /\ grade # ""
        THEN grade_school_unit(grade) \in units
        ELSE IF /\ audience_type \in {"School Unit", "Grade", "Section"}
                /\ section # "" /\ section_grade # ""
        THEN grade_school_unit(section_grade) \in units
        ELSE IF audience_type = "Campus" /\ campus # ""
        THEN \E su \in SchoolUnits : tabSchoolUnit[su].campus = campus /\ su \in units
        ELSE FALSE

\* the sections of the Staff Section Assignment rows of a staff member and year
assigned_sections(staff, academic_year) ==
    {x.section : x \in {y \in tabStaffSectionAssignment :
                            y.staff = staff /\ y.academic_year = academic_year}}

\* validate_audience_permission, what follows the role branches
teacher_may_send(user, audience_type, section) ==
    LET staff == staff_of_user(user)
        teacher_sections == assigned_sections(staff, get_current_academic_year)
    IN  IF staff = "" THEN FALSE
        ELSE IF get_current_academic_year = "" THEN FALSE
        ELSE IF teacher_sections = {} THEN FALSE
        ELSE IF audience_type = "Section" THEN section \in teacher_sections
        ELSE FALSE

validate_audience_permission_result(user, audience_type, campus, school_unit, grade, section) ==
    IF "System Manager" \in get_roles(user) THEN TRUE
    ELSE IF "School Admin" \in get_roles(user)
    THEN school_admin_may_send(user, audience_type, campus, school_unit, grade, section)
    ELSE teacher_may_send(user, audience_type, section)

\* get_audience_count with count_type "guardians": resolve_audience, which
\* asks resolve_audience_to_guardians with respect_preferences left at True
get_audience_count_result(audience_type, campus, school_unit, grade, section, shift) ==
    LET students == resolve_audience_to_students_result(audience_type, campus, school_unit, grade,
                                                        section, shift, get_current_academic_year)
        guardians == resolve_audience_to_guardians_result(students.students, TRUE)
    IN  IF get_current_academic_year = "" THEN [err |-> "", count |-> 0]
        ELSE IF students.err # "" THEN [err |-> students.err, count |-> 0]
        ELSE IF guardians.err # "" THEN [err |-> guardians.err, count |-> 0]
        ELSE [err |-> "", count |-> Cardinality(guardians.guardians)]

\* get_audience_preview for the session user: the error thrown, or count and can_send
get_audience_preview_result(session_user, audience_type, campus, school_unit, grade, section, shift) ==
    LET can_send == validate_audience_permission_result(session_user, audience_type, campus,
                                                        school_unit, grade, section)
        counted == get_audience_count_result(audience_type, campus, school_unit, grade,
                                             section, shift)
    IN  IF ~can_send THEN [err |-> "", count |-> 0, can_send |-> FALSE]
        ELSE IF counted.err # "" THEN [err |-> counted.err, count |-> 0, can_send |-> TRUE]
        ELSE [err |-> "", count |-> counted.count, can_send |-> TRUE]

get_audience_preview(session_user, audience_type, campus, school_unit, grade, section, shift) ==
    /\ get_audience_preview_result(session_user, audience_type, campus, school_unit, grade,
                                   section, shift).err
          \in {"", "ValidationError", "OperationalError"}
    /\ UNCHANGED vars

----------------------------------------------------------------------------
\* Student Guardian documents inserted and saved by name (desk, REST).  Each
\* database call of validate() and the write that follows it is one step.

\* the rows whose name is not `name`
OtherRows(name) == {r \in BagToSet(tabStudentGuardian) : r.name # name}

\* frappe.db.exists for validate_duplicate
duplicate_exists(doc) ==
    \E r \in OtherRows(doc.name) : r.student = doc.student /\ r.guardian = doc.guardian

\* the rows frappe.db.exists may return in validate_primary_guardian
existing_primaries(doc) ==
    {r.name : r \in {x \in OtherRows(doc.name) : x.student = doc.student /\ x.is_primary}}

\* where validate() goes after validate_duplicate
AfterDuplicate(doc) == IF doc.is_primary THEN "validate_primary_guardian" ELSE "db_write"

\* insert of a new document: validate_duplicate
student_guardian_insert(p, student, guardian, is_primary) ==
    LET doc == [name |-> 0, student |-> student, guardian |-> guardian,
                is_primary |-> is_primary] IN
    /\ sgpc[p] = "idle"
    /\ guardian \in DOMAIN tabGuardian
    /\ BagCardinality(tabStudentGuardian)
          + Cardinality({q \in Procs : sgpc[q] # "idle" /\ sgloc[q].doc.name = 0}) < MaxLinks
    /\ IF duplicate_exists(doc)
       THEN UNCHANGED <<sgpc, sgloc>>
       ELSE /\ sgloc' = [sgloc EXCEPT ![p] = [doc |-> doc, existing_primary |-> 0]]
            /\ sgpc' = [sgpc EXCEPT ![p] = AfterDuplicate(doc)]
    /\ UNCHANGED <<now, tabMessageRecipient, tabStudent>>
    /\ UNCHANGED inviteVars
    /\ UNCHANGED trialVars
    /\ UNCHANGED audienceVars

\* frappe.get_doc of a row, is_primary set by the caller, then save()
student_guardian_get_doc(p, name, is_primary) ==
    /\ sgpc[p] = "idle"
    /\ \E r \in BagToSet(tabStudentGuardian) :
          /\ r.name = name
          /\ sgloc' = [sgloc EXCEPT ![p] = [doc |-> [r EXCEPT !.is_primary = is_primary],
                                            existing_primary |-> 0]]
    /\ sgpc' = [sgpc EXCEPT ![p] = "validate_duplicate"]
    /\ UNCHANGED <<now, tabMessageRecipient, tabStudent>>
    /\ UNCHANGED inviteVars
    /\ UNCHANGED trialVars
    /\ UNCHANGED audienceVars

\* save of an existing document: validate_duplicate
student_guardian_validate_duplicate(p) ==
    /\ sgpc[p] = "validate_duplicate"
    /\ IF duplicate_exists(sgloc[p].doc)
       THEN /\ sgpc' = [sgpc EXCEPT ![p] = "idle"]
            /\ sgloc' = [sgloc EXCEPT ![p] = NoRequest]
       ELSE /\ sgpc' = [sgpc EXCEPT ![p] = AfterDuplicate(sgloc[p].doc)]
            /\ UNCHANGED sgloc
    /\ UNCHANGED <<now, tabMessageRecipient, tabStudent>>
    /\ UNCHANGED inviteVars
    /\ UNCHANGED trialVars
    /\ UNCHANGED audienceVars

\* validate_primary_guardian: frappe.db.exists returns one of the matching rows
validate_primary_guardian(p) ==
    /\ sgpc[p] = "validate_primary_guardian"
    /\ IF existing_primaries(sgloc[p].doc) = {}
       THEN /\ sgpc' = [sgpc EXCEPT ![p] = "db_write"]
            /\ UNCHANGED sgloc
       ELSE \E existing_primary \in existing_primaries(sgloc[p].doc) :
               /\ sgloc' = [sgloc EXCEPT ![p].existing_primary = existing_primary]
               /\ sgpc' = [sgpc EXCEPT ![p] = "set_value"]
    /\ UNCHANGED <<now, tabMessageRecipient, tabStudent>>
    /\ UNCHANGED inviteVars
    /\ UNCHANGED trialVars
    /\ UNCHANGED audienceVars

\* the bag with the row named `name` replaced by doc
update_row(name, doc) ==
    LET rows == BagToSet(tabStudentGuardian) IN
    SetToBag({IF r.name = name THEN doc ELSE r : r \in rows})

\* a row without its primary flag
unset_primary(r) == [r EXCEPT !.is_primary = FALSE]

\* validate_primary_guardian: frappe.db.set_value(existing_primary, "is_primary", 0)
unset_previous_primary(p) ==
    /\ sgpc[p] = "set_value"
    /\ tabStudentGuardian' =
          SetToBag({IF r.name = sgloc[p].existing_primary THEN unset_primary(r) ELSE r :
                       r \in BagToSet(tabStudentGuardian)})
    /\ sgpc' = [sgpc EXCEPT ![p] = "db_write"]
    /\ UNCHANGED <<now, tabGuardianInvite, tabGuardian, pc, loc, revoked, sgloc,
                   tabMessageRecipient, tabStudent>>
    /\ UNCHANGED trialVars
    /\ UNCHANGED audienceVars

\* db_insert of a new document under the next name, or db_update of every field
\* of the copy
student_guardian_db_write(p) ==
    /\ sgpc[p] = "db_write"
    /\ LET doc == sgloc[p].doc
           named == [doc EXCEPT !.name = BagCardinality(tabStudentGuardian) + 1]
       IN tabStudentGuardian' =
             IF doc.name = 0 THEN tabStudentGuardian (+) SetToBag({named})
             ELSE update_row(doc.name, doc)
    /\ sgpc' = [sgpc EXCEPT ![p] = "idle"]
    /\ sgloc' = [sgloc EXCEPT ![p] = NoRequest]
    /\ UNCHANGED <<now, tabGuardianInvite, tabGuardian, pc, loc, revoked,
                   tabMessageRecipient, tabStudent>>
    /\ UNCHANGED trialVars
    /\ UNCHANGED audienceVars

----------------------------------------------------------------------------
\* Message Recipient: the delivery status of each channel.  Each method sets the
\* fields on the document and saves it.

update_email_status(n, status, error) ==
    LET self == tabMessageRecipient[n]
        doc == [self EXCEPT
                   !.email_status = status,
                   !.email_sent_at = IF status = "Sent" THEN now ELSE @,
                   !.email_delivered_at = IF status = "Delivered" THEN now ELSE @,
                   !.email_error = IF status \in {"Failed", "Bounced"} /\ error # ""
                                   THEN error ELSE @]
    IN /\ tabMessageRecipient' = [tabMessageRecipient EXCEPT ![n] = doc]
       /\ UNCHANGED <<now, sgpc, sgloc, tabStudent>>
       /\ UNCHANGED inviteVars
       /\ UNCHANGED trialVars
       /\ UNCHANGED audienceVars

update_sms_status(n, status, error) ==
    LET self == tabMessageRecipient[n]
        doc == [self EXCEPT
                   !.sms_status = status,
                   !.sms_sent_at = IF status = "Sent" THEN now ELSE @,
                   !.sms_error = IF status \in {"Failed"} /\ error # "" THEN error ELSE @]
    IN /\ tabMessageRecipient' = [tabMessageRecipient EXCEPT ![n] = doc]
       /\ UNCHANGED <<now, sgpc, sgloc, tabStudent>>
       /\ UNCHANGED inviteVars
       /\ UNCHANGED trialVars
       /\ UNCHANGED audienceVars

update_push_status(n, status) ==
    LET self == tabMessageRecipient[n]
        doc == [self EXCEPT
                   !.push_status = status,
                   !.push_sent_at = IF status = "Sent" THEN now ELSE @]
    IN /\ tabMessageRecipient' = [tabMessageRecipient EXCEPT ![n] = doc]
       /\ UNCHANGED <<now, sgpc, sgloc, tabStudent>>
       /\ UNCHANGED inviteVars
       /\ UNCHANGED trialVars
       /\ UNCHANGED audienceVars

----------------------------------------------------------------------------
\* Permission hooks (permissions.py).  A row filter is kept as the condition it
\* states: kind "all" is the empty condition, "none" is 1=0.

get_current_guardian(session_user) ==
    IF session_user \in {"Administrator", "Guest"} THEN NoGuardian
    ELSE LET found == {g \in DOMAIN tabGuardian : tabGuardian[g].user = session_user}
         IN IF found = {} THEN NoGuardian ELSE CHOOSE g \in found : TRUE

get_teacher_sections(user) ==
    {r.section : r \in {x \in tabStaffSectionAssignment : x.staff = user /\ x.is_active}}

get_guardian_students(guardian) ==
    {r.student : r \in {x \in BagToSet(tabStudentGuardian) : x.guardian = guardian}}

StudentAdminRoles ==
    {"School Admin", "Administrator", "System Manager", "School Manager", "Secretary"}
StaffRoles == StudentAdminRoles \cup {"Teacher"}

AllRows == [kind |-> "all", values |-> {}]
NoRows == [kind |-> "none", values |-> {}]

student_query_result(user, session_user) ==
    LET roles == get_roles(user) IN
    IF roles \cap StudentAdminRoles # {} THEN AllRows
    ELSE IF "Teacher" \in roles
         THEN LET sections == get_teacher_sections(user) IN
              IF sections # {} THEN [kind |-> "current_section", values |-> sections]
              ELSE NoRows
    ELSE IF "Parent" \in roles
         THEN LET guardian == get_current_guardian(session_user) IN
              IF guardian # NoGuardian /\ get_guardian_students(guardian) # {}
              THEN [kind |-> "name", values |-> get_guardian_students(guardian)]
              ELSE NoRows
    ELSE NoRows

\* the Student rows a filter of student_query lets through
student_query_admits(filter, student) ==
    IF filter.kind = "all" THEN TRUE
    ELSE IF filter.kind = "current_section"
         THEN tabStudent[student].current_section \in filter.values
    ELSE IF filter.kind = "name" THEN student \in filter.values
    ELSE FALSE

student_has_permission_result(student, user, session_user) ==
    LET roles == get_roles(user) IN
    IF roles \cap StudentAdminRoles # {} THEN TRUE
    ELSE IF "Teacher" \in roles
         THEN tabStudent[student].current_section \in get_teacher_sections(user)
    ELSE IF "Parent" \in roles
         THEN LET guardian == get_current_guardian(session_user) IN
              guardian # NoGuardian /\ student \in get_guardian_students(guardian)
    ELSE FALSE

\* a scope filter that compares the scope values without the scope_type
scope_condition_any_type(student_data) ==
    [kind |-> "scope",
     institutions |-> {d.institution : d \in student_data} \ {""},
     campuses |-> {d.campus : d \in student_data} \ {""},
     grades |-> {d.current_grade : d \in student_data} \ {""},
     sections |-> {d.current_section : d \in student_data} \ {""},
     typed |-> FALSE]

\* the condition news_query and school_event_query build from the children's rows
scope_condition(student_data) ==
    [kind |-> "scope",
     institutions |-> {d.institution : d \in student_data} \ {""},
     campuses |-> {d.campus : d \in student_data} \ {""},
     grades |-> {d.current_grade : d \in student_data} \ {""},
     sections |-> {d.current_section : d \in student_data} \ {""},
     typed |-> TRUE]

NoScopeRows == [kind |-> "none", institutions |-> {}, campuses |-> {}, grades |-> {},
                sections |-> {}, typed |-> TRUE]
AllScopeRows == [NoScopeRows EXCEPT !.kind = "all"]

\* the filter a Parent gets
parent_scope_query(session_user) ==
    LET guardian == get_current_guardian(session_user)
        students == IF guardian = NoGuardian THEN {} ELSE get_guardian_students(guardian)
        student_data == {tabStudent[st] : st \in students \cap DOMAIN tabStudent}
        condition == scope_condition(student_data)
    IN IF student_data = {} THEN NoScopeRows
       ELSE IF condition.institutions \cup condition.campuses \cup condition.grades
                  \cup condition.sections = {} THEN NoScopeRows
       ELSE condition

news_query_result(user, session_user) ==
    LET roles == get_roles(user) IN
    IF roles \cap StaffRoles # {} THEN AllScopeRows
    ELSE IF "Parent" \in roles THEN parent_scope_query(session_user)
    ELSE NoScopeRows

school_event_query_result(user, session_user) ==
    LET roles == get_roles(user) IN
    IF roles \cap StaffRoles # {} THEN AllScopeRows
    ELSE IF "Parent" \in roles THEN parent_scope_query(session_user)
    ELSE NoScopeRows

\* the News or School Event rows a filter lets through
scope_admits(filter, doc) ==
    IF filter.kind = "all" THEN TRUE
    ELSE IF filter.kind = "none" THEN FALSE
    ELSE \/ (filter.typed => doc.scope_type = "Institution")
            /\ doc.institution \in filter.institutions
         \/ (filter.typed => doc.scope_type = "Campus") /\ doc.campus \in filter.campuses
         \/ (filter.typed => doc.scope_type = "Grade") /\ doc.grade \in filter.grades
         \/ (filter.typed => doc.scope_type = "Section") /\ doc.section \in filter.sections

\* the hooks as the framework calls them for the session user
student_query(user) ==
    /\ student_query_result(user, user) \in {AllRows, NoRows}
          \/ student_query_result(user, user).values # {}
    /\ UNCHANGED vars

student_has_permission(student, user) ==
    /\ student_has_permission_result(student, user, user) \in BOOLEAN
    /\ UNCHANGED vars

news_query(user) ==
    /\ news_query_result(user, user).kind \in {"all", "none", "scope"}
    /\ UNCHANGED vars

school_event_query(user) ==
    /\ school_event_query_result(user, user).kind \in {"all", "none", "scope"}
    /\ UNCHANGED vars

----------------------------------------------------------------------------
\* no request is being served
Quiet == \A p \in Procs : pc[p] = "idle"

\* One request at a time (the synchronous request-per-call model); the clock
\* also advances while a request is being served.
Next ==
    \/ Tick
    \/ /\ Quiet
       /\ \E institution \in InstitutionInputs, email \in InviteEmailInputs,
             students \in StudentLists, expiration_days \in DayInputs :
             create_invitation(institution, email, students, expiration_days)
    \/ Quiet /\ \E token \in TokenInputs : get_invitation(token)
    \/ Quiet /\ \E invitation_id \in InviteIdInputs : revoke_invitation(invitation_id)
    \/ /\ Quiet
       /\ \E invitation_id \in InviteIdInputs, new_expiration_days \in DayInputs :
             resend_invitation(invitation_id, new_expiration_days)
    \/ /\ Quiet
       /\ \E institution \in Institutions \cup {""}, status \in StatusInputs :
             list_invitations(institution, status)
    \/ /\ Quiet
       /\ \E p \in Procs, token \in TokenInputs, user_email \in EmailInputs :
             accept_begin(p, token, user_email)
    \/ \E p \in Procs : get_guardian(p)
    \/ \E p \in Procs : create_guardian(p)
    \/ \E p \in Procs : link_exists(p)
    \/ \E p \in Procs : validate_duplicate(p)
    \/ \E p \in Procs : db_insert(p)
    \/ \E p \in Procs : mark_as_used(p)
    \/ \E p \in Procs : accept_end(p)
    \/ /\ Quiet
       /\ \E students \in StudentLists, respect_preferences \in BOOLEAN :
             resolve_audience_to_guardians(students, respect_preferences)

Spec == Init /\ [][Next]_vars

\* Requests served concurrently: the steps of two accept_invitation requests
\* interleave with each other and with the other requests.
RaceNext ==
    \/ Tick
    \/ \E institution \in InstitutionInputs, email \in InviteEmailInputs,
          students \in StudentLists, expiration_days \in DayInputs :
          create_invitation(institution, email, students, expiration_days)
    \/ \E invitation_id \in InviteIdInputs : revoke_invitation(invitation_id)
    \/ \E invitation_id \in InviteIdInputs, new_expiration_days \in DayInputs :
          resend_invitation(invitation_id, new_expiration_days)
    \/ \E p \in Procs, token \in TokenInputs, user_email \in EmailInputs :
          accept_begin(p, token, user_email)
    \/ \E p \in Procs : get_guardian(p)
    \/ \E p \in Procs : create_guardian(p)
    \/ \E p \in Procs : link_exists(p)
    \/ \E p \in Procs : validate_duplicate(p)
    \/ \E p \in Procs : db_insert(p)
    \/ \E p \in Procs : mark_as_used(p)

RaceSpec == Init /\ [][RaceNext]_vars

\* The trial gate: access checks, the administrative calls, the job queue, the
\* daily sweep and the cache's time to live, one at a time.
TrialNext ==
    \/ Tick
    \/ \E user \in SessionUsers, doctype \in DoctypeInputs :
          check_trial_write_access(user, doctype)
    \/ \E user \in SessionUsers, institution \in TrialInstitutionInputs \cup {""} :
          check_trial_access(user, institution)
    \/ \E institution \in TrialInstitutionInputs : get_trial_status(institution)
    \/ \E user \in SessionUsers, institution \in TrialInstitutionInputs,
          days \in ExtendDayInputs : extend_trial(user, institution, days)
    \/ \E user \in SessionUsers, institution \in TrialInstitutionInputs :
          convert_trial_to_paid(user, institution)
    \/ \E user \in SessionUsers, institution \in TrialInstitutionInputs,
          duration_days \in DurationInputs : start_trial(user, institution, duration_days)
    \/ \E institution \in TrialInstitutionInputs, duration_days \in DayInputs :
          initialize_trial(institution, duration_days)
    \/ \E institution \in Institutions, db_error \in BOOLEAN :
          update_expired_status(institution, db_error)
    \/ \E institution \in Institutions : cache_expire(institution)
    \/ check_trial_expirations

TrialSpec == Init /\ [][TrialNext]_vars

\* The scheduler runs the daily sweep again and again (hooks.py, scheduler_events
\* "daily") and the workers of the "short" queue take every job.
TrialFairSpec ==
    /\ Init
    /\ [][TrialNext]_vars
    /\ WF_vars(check_trial_expirations)
    /\ WF_vars(\E institution \in Institutions, db_error \in BOOLEAN :
                  update_expired_status(institution, db_error))

\* The academic structure is edited and audiences are resolved, one call at a time.
AudienceNext ==
    \/ \E student \in Students, section \in Sections, academic_year \in AcademicYears,
          status \in EnrollmentStatus, withdrawal_date \in BOOLEAN :
          student_enrollment_insert(student, section, academic_year, status, withdrawal_date)
    \/ \E n \in 1..MaxEnrollments, status \in EnrollmentStatus, withdrawal_date \in BOOLEAN :
          student_enrollment_save(n, status, withdrawal_date)
    \/ \E unit \in SchoolUnits, is_active \in BOOLEAN : school_unit_save(unit, is_active)
    \/ \E grade \in Grades, is_active \in BOOLEAN : grade_save(grade, is_active)
    \/ \E audience_type \in AudienceTypeInputs, scope \in ScopeInputs,
          shift \in ShiftInputs, academic_year \in AcademicYears \cup {""} :
          resolve_audience_to_students(audience_type, scope.campus, scope.school_unit,
                                       scope.grade, scope.section, shift, academic_year)
    \/ \E session_user \in SenderUsers, audience_type \in {"All School", "Campus", "Section"},
          scope \in {sc \in ScopeInputs : sc.section = "SEC1"} :
          get_audience_preview(session_user, audience_type, scope.campus, scope.school_unit,
                               scope.grade, scope.section, "")

AudienceSpec == Init /\ [][AudienceNext]_vars

\* Student Guardian documents are inserted and saved by concurrent requests whose
\* steps interleave; the two Guardian rows exist from the start.
PrimaryInit ==
    /\ InitRest
    /\ tabGuardian = TwoGuardians
    /\ tabStudentGuardian = EmptyBag
    /\ tabStudent = StudentScope

PrimaryNext ==
    \/ \E p \in Procs, student \in LinkStudentInputs, guardian \in LinkGuardianInputs,
          is_primary \in BOOLEAN : student_guardian_insert(p, student, guardian, is_primary)
    \/ \E p \in Procs, name \in LinkNameInputs, is_primary \in BOOLEAN :
          student_guardian_get_doc(p, name, is_primary)
    \/ \E p \in Procs : student_guardian_validate_duplicate(p)
    \/ \E p \in Procs : validate_primary_guardian(p)
    \/ \E p \in Procs : unset_previous_primary(p)
    \/ \E p \in Procs : student_guardian_db_write(p)

PrimarySpec == PrimaryInit /\ [][PrimaryNext]_vars

\* Delivery reports arrive for the channels of a recipient, one call at a time.
MessageNext ==
    \/ Tick
    \/ \E n \in MessageRecipients, status \in EmailStatus, error \in ErrorInputs :
          update_email_status(n, status, error)
    \/ \E n \in MessageRecipients, status \in SmsStatus, error \in ErrorInputs :
          update_sms_status(n, status, error)
    \/ \E n \in MessageRecipients, status \in PushStatus : update_push_status(n, status)

MessageSpec == Init /\ [][MessageNext]_vars

\* The permission hooks are asked on every Guardian table, every set of Student
\* Guardian rows and every scope of the Student rows.
PermissionInit ==
    /\ InitRest
    /\ tabGuardian \in GuardianTables
    /\ tabStudentGuardian \in {SetToBag(rows) : rows \in SUBSET LinkRows(tabGuardian)}
    /\ tabStudent \in [Students -> StudentScopeInputs]

PermissionNext ==
    \/ \E user \in PermissionUsers : student_query(user)
    \/ \E user \in PermissionUsers, student \in Students : student_has_permission(student, user)
    \/ \E user \in PermissionUsers : news_query(user)
    \/ \E user \in PermissionUsers : school_event_query(user)

PermissionSpec == PermissionInit /\ [][PermissionNext]_vars

----------------------------------------------------------------------------
\* Properties

DB == <<tabGuardianInvite, tabGuardian, tabStudentGuardian>>

\* Student Guardian rows for one (student, guardian) pair
LinkCount(s, g) ==
    LET rows == {r \in BagToSet(tabStudentGuardian) : r.student = s /\ r.guardian = g}
    IN BagCardinality([r \in rows |-> tabStudentGuardian[r]])

\* the step in which request p starts
Begins(p) == pc[p] = "idle" /\ pc'[p] # "idle"

\* C1: two accept_invitation requests on the same token never both succeed,
\* and no (student, guardian) pair has more than one Student Guardian row.
C1_OneAcceptPerToken ==
    /\ \A p, q \in Procs :
          (p # q /\ pc[p] = "done" /\ pc[q] = "done") => loc[p].name # loc[q].name
    /\ \A s \in Students, g \in DOMAIN tabGuardian : LinkCount(s, g) <= 1

\* C2: an accept_invitation request that gets past its checks found an invite
\* for its token that was not used and whose expiry was not earlier than now (so
\* not one created with one day more than a day ago and not resent); a request
\* that fails at its checks writes nothing, and a failed request never writes.
C2_AcceptRejectsInvalid ==
    [][\A p \in Procs :
          /\ (Begins(p) /\ pc'[p] = "failed") => UNCHANGED DB
          /\ (Begins(p) /\ pc'[p] # "failed") =>
                /\ loc'[p].name \in InviteByToken(loc'[p].token)
                /\ ~tabGuardianInvite[loc'[p].name].used
                /\ ~(tabGuardianInvite[loc'[p].name].expires < now)
                /\ ~(/\ tabGuardianInvite[loc'[p].name].expires =
                            add_days(tabGuardianInvite[loc'[p].name].creation, 1)
                     /\ now > add_days(tabGuardianInvite[loc'[p].name].creation, 1))
          /\ pc[p] = "failed" => (pc'[p] \in {"failed", "idle"} /\ UNCHANGED DB)
      ]_vars

\* C2 witness: an invite created for one day is refused more than a day later,
\* with no link made and the invite not marked.
C2_Witness ==
    \E p \in Procs :
        /\ pc[p] = "failed" /\ loc[p].err = "expired"
        /\ loc[p].name \in DOMAIN tabGuardianInvite
        /\ LET invite == tabGuardianInvite[loc[p].name]
           IN /\ invite.expires = add_days(invite.creation, 1)
              /\ now > add_days(invite.creation, 1)
              /\ ~invite.used
        /\ tabStudentGuardian = EmptyBag

\* C3 as stated: a second accept_invitation with the token and email of an
\* earlier successful one succeeds with the same guardian and students_linked.
C3_AcceptIdempotent ==
    \A p \in Procs :
        (loc[p].again /\ pc[p] \in {"done", "failed"}) =>
            /\ pc[p] = "done"
            /\ loc[p].guardian = tabGuardianInvite[loc[p].name].guardian
            /\ Range(loc[p].students_linked) =
                   Range(tabGuardianInvite[loc[p].name].student_ids)

\* C3 amended: a second accept_invitation with the token and email of an earlier
\* successful one fails as already used and changes no invite, guardian or link.
C3_SecondAcceptRejected ==
    [][\A p \in Procs :
          (Begins(p) /\ loc'[p].again) =>
              /\ pc'[p] = "failed"
              /\ loc'[p].err = "used"
              /\ UNCHANGED DB
      ]_vars

C3_Witness ==
    \E p \in Procs :
        /\ loc[p].again /\ pc[p] = "failed" /\ loc[p].err = "used"
        /\ tabGuardian[tabGuardianInvite[loc[p].name].guardian].email = loc[p].user_email

\* C4: get_invitation reports Used (not valid) when used is set, whatever the
\* expiry; otherwise Expired (not valid) when the expiry is in the past;
\* otherwise Pending (valid).
C4_StatusDerivation ==
    \A n \in DOMAIN tabGuardianInvite :
        LET invite == tabGuardianInvite[n]
            r == get_invitation_result(invite.token)
        IN /\ r.ok /\ r.id = n
           /\ invite.used => (r.status = "Used" /\ ~r.is_valid)
           /\ (~invite.used /\ invite.expires < now) =>
                  (r.status = "Expired" /\ ~r.is_valid)
           /\ (~invite.used /\ ~(invite.expires < now)) =>
                  (r.status = "Pending" /\ r.is_valid)

\* C4 witness: a used invite whose expiry has passed is reported Used.
C4_Witness ==
    \E n \in DOMAIN tabGuardianInvite :
        /\ tabGuardianInvite[n].used
        /\ tabGuardianInvite[n].expires < now
        /\ get_invitation_result(tabGuardianInvite[n].token).status = "Used"

\* C5: once revoke_invitation has succeeded on an invite (and it has not been
\* resent), get_invitation reports it Expired and not valid, and
\* accept_invitation refuses it.
C5_RevokedIsExpired ==
    \A n \in revoked :
        LET invite == tabGuardianInvite[n]
            r == get_invitation_result(invite.token)
        IN /\ r.status = "Expired"
           /\ ~r.is_valid
           /\ accept_check(invite, now) # ""

\* C6: revoke_invitation succeeds only on a Pending invite; on a used invite or
\* one whose expiry is past it fails and the invite stays as it was.
C6_RevokeOnlyPending ==
    /\ [](\A id \in InviteIdInputs :
             LET r == revoke_result(id) IN
             /\ r.ok => (id \in DOMAIN tabGuardianInvite
                         /\ get_status(tabGuardianInvite[id], now) = "Pending")
             /\ (id \in DOMAIN tabGuardianInvite
                 /\ (tabGuardianInvite[id].used \/ tabGuardianInvite[id].expires < now))
                    => (~r.ok /\ r.doc = tabGuardianInvite[id]))
    /\ [][\A n \in DOMAIN tabGuardianInvite :
             (n \notin revoked /\ n \in revoked') =>
                 (~tabGuardianInvite[n].used /\ ~(tabGuardianInvite[n].expires < now))
         ]_vars

\* C6 witness: revoke_invitation is refused on an invite whose expiry has passed.
C6_Witness ==
    \E n \in DOMAIN tabGuardianInvite :
        /\ ~tabGuardianInvite[n].used
        /\ tabGuardianInvite[n].expires < now
        /\ revoke_result(n).err = "expired"

C8_TokenFixed ==
    [][/\ \A n \in DOMAIN tabGuardianInvite :
             /\ n \in DOMAIN tabGuardianInvite'
             /\ tabGuardianInvite'[n].token = tabGuardianInvite[n].token
       /\ \A n \in DOMAIN tabGuardianInvite' :
             tabGuardianInvite'[n].token = generate_hash(n)
      ]_vars

\* C8 witness: an invite that was resent and then accepted still has its token.
C8_Witness ==
    \E n \in DOMAIN tabGuardianInvite :
        /\ tabGuardianInvite[n].used
        /\ tabGuardianInvite[n].expires > tabGuardianInvite[n].creation + MaxDays
        /\ tabGuardianInvite[n].token = generate_hash(n)

\* the fields of a used invite
UsedFields(invite) == <<invite.used, invite.guardian, invite.used_at, invite.expires>>

C10_AcceptPostcondition ==
    [][\A p \in Procs :
          (pc[p] # "done" /\ pc'[p] = "done") =>
              LET invite == tabGuardianInvite'[loc'[p].name]
                  guardian == loc'[p].guardian
              IN /\ guardian \in DOMAIN tabGuardian'
                 /\ Range(invite.student_ids) \subseteq Range(loc'[p].students_linked)
                 /\ Range(loc'[p].students_linked) \subseteq Range(invite.student_ids)
                 /\ \A s \in Range(invite.student_ids) :
                       \E row \in BagToSet(tabStudentGuardian') :
                           row.student = s /\ row.guardian = guardian
                 /\ invite.used
                 /\ invite.guardian = guardian
      ]_vars

\* C10 witness: a request returned successfully for two students, one at least
\* already linked to the guardian before the request reached it.
C10_Witness ==
    \E p \in Procs :
        /\ pc[p] = "done"
        /\ loc[p].found_existing
        /\ Range(loc[p].students_linked) = {"S1", "S2"}
        /\ tabGuardianInvite[loc[p].name].guardian = loc[p].guardian

----------------------------------------------------------------------------
----------------------------------------------------------------------------
\* Properties of the trial gate

\* the trial of institution i is Active with an expiry earlier than now
ActivePastExpiry(i) ==
    /\ tabInstitution[i].is_trial
    /\ tabInstitution[i].trial_status = "Active"
    /\ tabInstitution[i].trial_expires_at # NoTime
    /\ tabInstitution[i].trial_expires_at < now

\* the users whose writes of a protected kind reach the trial check of i
GatedUsers(i) ==
    {u \in SessionUsers : ~gate_skips(u, "Student") /\ get_user_institution(u) = i}

\* C12 as stated: whenever a trial is Active with its expiry in the past, the
\* next is_trial_expired (and the write hook) finds it expired, whatever access
\* checks came before.
C12_ExpiredOnNextCheck ==
    \A i \in Institutions :
        ActivePastExpiry(i) =>
            /\ is_trial_expired_result(i)
            /\ \A u \in GatedUsers(i) : check_trial_write_access_throws(u, "Student")

\* C12: whenever a trial is Active with its expiry in the past and no result of
\* an earlier check is still held in the cache (300 s), the next
\* is_trial_expired (and the write hook) finds it expired, with the status still
\* Active in the database.
C12_ExpiredOnNextUncachedCheck ==
    \A i \in Institutions :
        (ActivePastExpiry(i) /\ ~cache.trial_expired[i].present) =>
            /\ is_trial_expired_result(i)
            /\ \A u \in GatedUsers(i) : check_trial_write_access_throws(u, "Student")

\* C12 witness: an access check has found the trial expired from its timestamp
\* and queued the status write, which has not run: the status is still Active.
C12_Witness ==
    \E i \in Institutions :
        /\ ActivePastExpiry(i)
        /\ cache.trial_expired[i].present /\ cache.trial_expired[i].value
        /\ queue[i] > 0
        /\ GatedUsers(i) # {}

\* C13: Converted is terminal: no step changes a trial_status that is Converted,
\* and a Converted institution is never evaluated as expired, by is_trial_expired
\* or by get_trial_status.
C13_ConvertedTerminal ==
    /\ [][\A i \in Institutions :
             tabInstitution[i].trial_status = "Converted" =>
                 tabInstitution'[i].trial_status = "Converted"]_vars
    /\ [](\A i \in Institutions :
             tabInstitution[i].trial_status = "Converted" =>
                 /\ ~is_trial_expired_result(i)
                 /\ ~get_trial_status_result(i).is_expired)

\* the later of two times
later(a, b) == IF a > b THEN a ELSE b

\* C14: extend_trial by 1..30 days on a trial that is not Converted succeeds and
\* saves trial_expires_at = max(now, previous expiry) + days with status Active;
\* the new expiry is not earlier than a previous expiry still in the future.
C14_ExtendFromLaterOfNowAndExpiry ==
    /\ [](\A i \in Institutions, days \in 1..MaxExtendDays :
             LET inst == tabInstitution[i]
                 r == extend_trial_result("sm@x.com", i, days)
             IN (inst.is_trial /\ inst.trial_status # "Converted") =>
                    /\ r.ok
                    /\ r.doc.trial_status = "Active"
                    /\ r.doc.trial_expires_at =
                          add_days(later(now, inst.trial_expires_at), days)
                    /\ (inst.trial_expires_at > now =>
                           r.doc.trial_expires_at >= inst.trial_expires_at))
    /\ [][\A i \in Institutions, days \in DayInputs :
             (/\ extend_trial("sm@x.com", i, days)
              /\ tabInstitution[i].is_trial
              /\ tabInstitution[i].trial_status # "Converted") =>
                 /\ tabInstitution'[i].trial_status = "Active"
                 /\ tabInstitution'[i].trial_expires_at =
                       add_days(later(now, tabInstitution[i].trial_expires_at), days)
         ]_vars

\* C14 witness: a trial whose expiry was still in the future has been extended
\* from that expiry: it now ends two full periods after its start.
C14_Witness ==
    \E i \in Institutions :
        /\ <<i, "extended">> \in tabComment
        /\ tabInstitution[i].trial_status = "Active"
        /\ tabInstitution[i].trial_started_at = now
        /\ tabInstitution[i].trial_expires_at = add_days(add_days(now, MaxDays), MaxDays)

\* C15: a trial_status that is Expired becomes Active only by extend_trial: the
\* step keeps the start of the trial and sets the expiry to
\* max(now, previous expiry) + days.
C15_ExpiredToActiveOnlyByExtend ==
    [][\A i \in Institutions :
          (/\ tabInstitution[i].trial_status = "Expired"
           /\ tabInstitution'[i].trial_status = "Active") =>
              /\ tabInstitution'[i].trial_started_at = tabInstitution[i].trial_started_at
              /\ \E days \in 1..MaxExtendDays :
                    tabInstitution'[i].trial_expires_at =
                        add_days(later(now, tabInstitution[i].trial_expires_at), days)
      ]_vars

\* no trial result is cached for institution i
NoCachedTrial(i) ==
    ~cache.trial_expired[i].present /\ ~cache.trial_status[i].present

\* C16: after a successful extend_trial, convert_trial_to_paid or start_trial on
\* an institution, no trial result cached before the call is left for it.
C16_AdminActionClearsCache ==
    [][\A i \in Institutions :
          /\ (\E days \in ExtendDayInputs :
                 /\ extend_trial_result("sm@x.com", i, days).ok
                 /\ extend_trial("sm@x.com", i, days)
                 /\ tabInstitution'[i] # tabInstitution[i]) => NoCachedTrial(i)'
          /\ (/\ convert_trial_to_paid_result("sm@x.com", i).ok
              /\ convert_trial_to_paid("sm@x.com", i)) => NoCachedTrial(i)'
          /\ (\E d \in DurationInputs :
                 /\ start_trial_result("sm@x.com", i, d).ok
                 /\ start_trial("sm@x.com", i, d)
                 /\ <<i, "started">> \notin tabComment) => NoCachedTrial(i)'
      ]_vars

\* C17: a write by a user whose institution's trial resolves to expired is
\* refused by the hook unless the record kind is always allowed, and an always
\* allowed kind is never refused.
C17_ExpiredTrialBlocksWrites ==
    \A u \in SessionUsers, doctype \in DoctypeInputs :
        /\ (/\ get_user_institution(u) \in Institutions
            /\ is_trial_expired_result(get_user_institution(u))
            /\ doctype \notin ALWAYS_ALLOWED_DOCTYPES) =>
               check_trial_write_access_throws(u, doctype)
        /\ doctype \in ALWAYS_ALLOWED_DOCTYPES =>
               ~check_trial_write_access_throws(u, doctype)

----------------------------------------------------------------------------
\* Properties of audience resolution

\* the students with an Active Student Enrollment in a section for a year
ActiveIn(section, academic_year) ==
    {tabStudentEnrollment[k].student : k \in
        {j \in DOMAIN tabStudentEnrollment :
            /\ tabStudentEnrollment[j].section = section
            /\ tabStudentEnrollment[j].academic_year = academic_year
            /\ tabStudentEnrollment[j].status = "Active"}}

\* C18: for audience_type Section with a section and an academic year given,
\* resolve_audience_to_students returns exactly the students with an Active
\* enrollment in that section for that year, none of them twice.
C18_SectionAudienceExact ==
    \A scope \in ScopeInputs, shift \in ShiftInputs, academic_year \in AcademicYears :
        scope.section # "" =>
            LET r == resolve_audience_to_students_result(
                         "Section", scope.campus, scope.school_unit, scope.grade,
                         scope.section, shift, academic_year)
            IN /\ r.err = ""
               /\ Range(r.students) = ActiveIn(scope.section, academic_year)
               /\ Cardinality(Range(r.students)) = Len(r.students)

\* C18 witness: a section with one Active and one Withdrawn enrollment in the
\* same year resolves to the Active student alone.
C18_Witness ==
    \E sec \in Sections, y \in AcademicYears, j, k \in DOMAIN tabStudentEnrollment :
        /\ tabStudentEnrollment[j].section = sec /\ tabStudentEnrollment[k].section = sec
        /\ tabStudentEnrollment[j].academic_year = y
        /\ tabStudentEnrollment[k].academic_year = y
        /\ tabStudentEnrollment[j].status = "Active"
        /\ tabStudentEnrollment[k].status = "Withdrawn"
        /\ tabStudentEnrollment[j].student # tabStudentEnrollment[k].student
        /\ resolve_audience_to_students_result("Section", "", "", "", sec, "", y).students
              = <<tabStudentEnrollment[j].student>>

\* the guardians with a Student Guardian row for one of the students
LinkedGuardians(students) ==
    {g \in DOMAIN tabGuardian : \E st \in Range(students) : LinkExists(st, g)}

\* C19: for every list of students resolve_audience_to_guardians returns the set
\* of the guardians linked to them.  (The result is a function of the arguments
\* and the tables, so asking again on unchanged data gives the same.)
C19_GuardiansUnion ==
    \A students \in StudentLists, respect_preferences \in BOOLEAN :
        LET r == resolve_audience_to_guardians_result(students, respect_preferences)
        IN r.err = "" /\ r.guardians = LinkedGuardians(students)

\* the students an audience resolves to, for no shift
Resolved(audience_type, scope, academic_year) ==
    Range(resolve_audience_to_students_result(
              audience_type, scope.campus, scope.school_unit, scope.grade,
              scope.section, "", academic_year).students)

\* C20: for every section, with the grade, school unit and campus above it and
\* the section's academic year, the students resolved for Section are among those
\* for Grade, those among School Unit, those among Campus, those among All School.
C20_AudienceMonotonic ==
    \A scope \in ScopeInputs :
        scope.section \in Sections =>
            LET y == tabSection[scope.section].academic_year IN
            /\ Resolved("Section", scope, y) \subseteq Resolved("Grade", scope, y)
            /\ Resolved("Grade", scope, y) \subseteq Resolved("School Unit", scope, y)
            /\ Resolved("School Unit", scope, y) \subseteq Resolved("Campus", scope, y)
            /\ Resolved("Campus", scope, y) \subseteq Resolved("All School", scope, y)

\* C25: a step that marks an invitation used starts from a stored row that is
\* still valid at that moment: the stored expiry (which a concurrent
\* revoke_invitation may have set) has not passed, and the row is not used.
C25_MarkUsedRevalidates ==
    [][\A n \in DOMAIN tabGuardianInvite :
          (~tabGuardianInvite[n].used /\ tabGuardianInvite'[n].used)
              => is_valid(tabGuardianInvite[n], now)]_vars

\* C29: in every reachable state an institution whose stored trial_status is
\* Expired has a trial_expires_at that is not in the future.
C29_ExpiredNotInFuture ==
    \A i \in Institutions :
        (tabInstitution[i].is_trial /\ tabInstitution[i].trial_status = "Expired")
            => tabInstitution[i].trial_expires_at <= now

\* C30: for every user whose writes reach the trial check of an institution,
\* with nothing cached for that institution, check_trial_access reports
\* has_access false exactly when check_trial_write_access rejects the user's
\* write of a protected kind.
C30_AccessAgreesWithWriteGate ==
    \A i \in Institutions : \A u \in GatedUsers(i) :
        NoCachedTrial(i) =>
            (~check_trial_access_result(u, "").has_access
                <=> check_trial_write_access_throws(u, "Student"))

\* an administrative action has touched a trial that had expiry e in the past:
\* extend_trial, start_trial and initialize_trial move the expiry, and
\* convert_trial_to_paid leaves the status Converted
AdminActed(i, e) ==
    \/ tabInstitution[i].trial_expires_at # e
    \/ tabInstitution[i].trial_status = "Converted"

Primaries(student) ==
    {r \in BagToSet(tabStudentGuardian) : r.student = student /\ r.is_primary}

\* C23: whatever Student Guardian inserts and saves have run, and however their
\* steps interleaved, every student has at most one row with is_primary set.
C23_OnePrimaryPerStudent ==
    \A student \in Students : Cardinality(Primaries(student)) <= 1

\* position of a delivery status in Pending -> Sent -> Delivered | Failed | Bounced
StatusRank(status) ==
    IF status = "Pending" THEN 0 ELSE IF status = "Sent" THEN 1 ELSE 2

\* the status of a channel does not go backwards in a step: the rank does not
\* drop, and a final status is not replaced by another one
Forward(old, new) ==
    /\ StatusRank(new) >= StatusRank(old)
    /\ StatusRank(old) = 2 => new = old

\* the statuses of one row, by channel
ChannelStatus(r) == <<r.email_status, r.sms_status, r.push_status>>

\* at most one channel of row n changes its status in the step
OneChannelChanges(n) ==
    Cardinality({c \in 1..3 : ChannelStatus(tabMessageRecipient[n])[c]
                                 # ChannelStatus(tabMessageRecipient'[n])[c]}) <= 1

\* C24: in every step each channel's status stays or moves forward along
\* Pending, Sent, Delivered or Failed or Bounced, and at most one channel changes.
C24_StatusMachine ==
    [][\A n \in MessageRecipients :
          /\ OneChannelChanges(n)
          /\ \A c \in 1..3 : Forward(ChannelStatus(tabMessageRecipient[n])[c],
                                     ChannelStatus(tabMessageRecipient'[n])[c])]_vars

\* the users who are Parents and nothing more
ParentUsers == {u \in PermissionUsers : get_roles(u) = {"Parent"}}

\* the students linked to a Guardian row of the user
Children(user) ==
    {st \in Students : \E g \in DOMAIN tabGuardian :
                          tabGuardian[g].user = user /\ LinkExists(st, g)}

\* the record is scoped to a level at which the child has this very value
ScopeMatches(doc, child) ==
    \/ doc.scope_type = "Institution" /\ child.institution # ""
          /\ doc.institution = child.institution
    \/ doc.scope_type = "Campus" /\ child.campus # "" /\ doc.campus = child.campus
    \/ doc.scope_type = "Grade" /\ child.current_grade # "" /\ doc.grade = child.current_grade
    \/ doc.scope_type = "Section" /\ child.current_section # ""
          /\ doc.section = child.current_section

\* the two row filters of a viewer
ScopeFilters(user) == {news_query_result(user, user), school_event_query_result(user, user)}

with_status(doc, status) ==
    [scope_type |-> doc.scope_type, institution |-> doc.institution, campus |-> doc.campus,
     grade |-> doc.grade, section |-> doc.section, status |-> status]

\* C28: for a Parent the News and School Event filters admit no record whose
\* status is not Published.
C28_ParentSeesPublishedOnly ==
    \A user \in ParentUsers : \A doc \in ScopeRecords :
        /\ \A status \in NewsStatus \ {"Published"} :
              ~scope_admits(news_query_result(user, user), with_status(doc, status))
        /\ \A status \in SchoolEventStatus \ {"Published"} :
              ~scope_admits(school_event_query_result(user, user), with_status(doc, status))

\* the sections of the active assignments of the Staff rows of a user
TeacherSections(user) ==
    {r.section : r \in {x \in tabStaffSectionAssignment :
                           x.is_active /\ tabStaff[x.staff].user = user}}

\* what the roles of a user let them see of a student
MaySeeStudent(user, student) ==
    IF get_roles(user) \cap StudentAdminRoles # {} THEN TRUE
    ELSE IF "Teacher" \in get_roles(user)
         THEN tabStudent[student].current_section \in TeacherSections(user)
    ELSE IF "Parent" \in get_roles(user) THEN student \in Children(user)
    ELSE FALSE

\* C22: for every user and student the row filter and the single-record check
\* give the same answer, and that answer is: every student for the admin roles,
\* the students in a section of an active assignment for a Teacher, the linked
\* students for a Parent, none for anyone else.
C22_StudentFilterAgreesWithCheck ==
    \A user \in PermissionUsers : \A student \in Students :
        /\ student_query_admits(student_query_result(user, user), student)
              = student_has_permission_result(student, user, user)
        /\ student_has_permission_result(student, user, user) = MaySeeStudent(user, student)


\* the school unit an audience of the three lower levels lies in; "" when it
\* lies in none
AudienceUnit(audience_type, scope) ==
    IF audience_type = "School Unit" THEN scope.school_unit
    ELSE IF audience_type = "Grade" THEN grade_school_unit(scope.grade)
    ELSE IF audience_type = "Section" /\ scope.section \in Sections
    THEN grade_school_unit(tabSection[scope.section].grade)
    ELSE ""

\* C27: validate_audience_permission lets a System Manager send to every
\* audience, a School Admin only to a School Unit, Grade or Section audience
\* that lies in a school unit they direct, vice-direct or coordinate, and a
\* Teacher only to a Section audience of a section they are assigned to in the
\* current academic year; get_audience_preview gives count 0 whenever can_send
\* is false.
C27_SendPermission ==
    \A user \in SenderUsers, audience_type \in AudienceTypeInputs, scope \in PreviewScopeInputs :
        LET roles == get_roles(user)
            may == validate_audience_permission_result(user, audience_type, scope.campus,
                                                       scope.school_unit, scope.grade, scope.section)
        IN  /\ "System Manager" \in roles => may
            /\ ("School Admin" \in roles /\ may)
                  => /\ audience_type \in {"School Unit", "Grade", "Section"}
                     /\ AudienceUnit(audience_type, scope)
                           \in user_school_units(staff_of_user(user))
            /\ ("Teacher" \in roles /\ may)
                  => /\ audience_type = "Section"
                     /\ scope.section
                           \in assigned_sections(staff_of_user(user), get_current_academic_year)
            /\ \A shift \in ShiftInputs :
                  LET preview == get_audience_preview_result(user, audience_type, scope.campus,
                                     scope.school_unit, scope.grade, scope.section, shift)
                  IN  ~preview.can_send => preview.count = 0
====
